---- MODULE Spec2Model ----
(***************************************************************************)
(* A model of the SmartGeo analysis application: the deterministic         *)
(* calculation engine (runFullAnalysis and the modules it sequences), the   *)
(* fallback report (analyzeSoilProfile / generateFallbackReport) and the    *)
(* React handlers of App.tsx that run an analysis, load one from history    *)
(* and merge an AI narration into the displayed result.                     *)
(*                                                                         *)
(* JavaScript numbers are IEEE-754 doubles.  They are modelled here as      *)
(* decimal floating-point values <<m, e>> (m * 10^e) with an 8-digit        *)
(* mantissa, 10^7 <= |m| < 10^8, zero being <<0, 0>>; every operation       *)
(* truncates to 8 significant digits.  All intermediate integers stay below *)
(* 2^31.  Non-finite values (Infinity, NaN) are not represented: inputs of  *)
(* the model keep every denominator non-zero.                               *)
(***************************************************************************)
EXTENDS Integers, Sequences, FiniteSets, TLC

(* ------------------------------------------------------------------ *)
(* Decimal floating point                                              *)
(* ------------------------------------------------------------------ *)

\* Evaluates v, then e.  JavaScript evaluates the statements of a function in
\* order and the arguments of a call before the call; Eager(<<a, b>>, e)
\* likewise computes a, then b, then e.
Eager(v, e) == IF v = v THEN e ELSE e

RECURSIVE Call(_, _)

\* A for loop: acc = Step(i, acc) for i = lo, ..., hi in order.  The range is
\* cut into two consecutive halves, run one after the other, so that the
\* evaluation depth grows with the logarithm of its length.
RECURSIVE Iterate(_, _, _, _)
Iterate(Step(_, _), lo, hi, acc) ==
    IF lo > hi THEN acc
    ELSE IF lo = hi THEN Step(lo, acc)
    ELSE LET mid == (lo + hi) \div 2
             a == Iterate(Step, lo, mid, acc)
         IN  Eager(a, Iterate(Step, mid + 1, hi, a))

Abs(x) == IF x < 0 THEN -x ELSE x

Sgn(x) == IF x < 0 THEN -1 ELSE IF x > 0 THEN 1 ELSE 0

P10 == <<1, 10, 100, 1000, 10000, 100000, 1000000, 10000000, 100000000, 1000000000>>

Pow10(k) == P10[k + 1]

\* The number of decimal places an integer 0 < a < 2^31 is below 8 digits
\* (negative: above).
Shift8(a) ==
    IF a >= 10000000
    THEN (IF a >= 1000000000 THEN -2 ELSE IF a >= 100000000 THEN -1 ELSE 0)
    ELSE IF a >= 1000
         THEN (IF a >= 1000000 THEN 1 ELSE IF a >= 100000 THEN 2
               ELSE IF a >= 10000 THEN 3 ELSE 4)
         ELSE (IF a >= 100 THEN 5 ELSE IF a >= 10 THEN 6 ELSE 7)

\* m * 10^e as a normalised value.
Num(m, e) ==
    IF m = 0 THEN <<0, 0>>
    ELSE LET a == Abs(m)
             k == Shift8(a)
         IN  IF k < 0 THEN <<Sgn(m) * (a \div Pow10(-k)), e - k>>
             ELSE <<m * Pow10(k), e - k>>

FromInt(n) == Num(n, 0)

Zero == <<0, 0>>

One == <<10000000, -7>>

Half == <<50000000, -8>>

FNeg(a) == <<-a[1], a[2]>>

FMulImpl(a, b) ==
    IF a[1] = 0 \/ b[1] = 0 THEN Zero
    ELSE LET x == Abs(a[1])
             y == Abs(b[1])
             xh == x \div 10000
             xl == x % 10000
             yh == y \div 10000
             yl == y % 10000
             mid == xh * yl + xl * yh + (xl * yl) \div 10000
             top == xh * yh + mid \div 10000
             s == IF (a[1] < 0) = (b[1] < 0) THEN 1 ELSE -1
         IN  IF top >= 10000000 THEN <<s * top, a[2] + b[2] + 8>>
             ELSE <<s * (top * 10 + (mid % 10000) \div 1000), a[2] + b[2] + 7>>

FMul(a, b) == Call("FMul", <<a, b>>)

\* n digits of long division: remainder r, quotient q so far.
LongDivImpl(r, y, q, n) ==
    Iterate(LAMBDA i, s : <<(s[1] * 10) % y, s[2] * 10 + (s[1] * 10) \div y>>,
            1, n, <<r, q>>)[2]

LongDiv(r, y, q, n) == Call("LongDiv", <<r, y, q, n>>)

\* a / b, b non-zero.
FDivImpl(a, b) ==
    IF a[1] = 0 THEN Zero
    ELSE LET x == Abs(a[1])
             y == Abs(b[1])
             s == IF (a[1] < 0) = (b[1] < 0) THEN 1 ELSE -1
         IN  IF x >= y
             THEN <<s * LongDiv(x % y, y, x \div y, 7), a[2] - b[2] - 7>>
             ELSE <<s * LongDiv(x, y, 0, 8), a[2] - b[2] - 8>>

FDiv(a, b) == Call("FDiv", <<a, b>>)

\* hi[2] >= lo[2], both non-zero: the sum, with one guard digit.
AddAlignedImpl(hi, lo) ==
    LET d == hi[2] - lo[2]
    IN  IF d > 9 THEN hi
        ELSE IF d = 0 THEN Num(hi[1] + lo[1], hi[2])
        ELSE Num(hi[1] * 10 + Sgn(lo[1]) * (Abs(lo[1]) \div Pow10(d - 1)), hi[2] - 1)

AddAligned(hi, lo) == Call("AddAligned", <<hi, lo>>)

FAddImpl(a, b) ==
    IF a[1] = 0 THEN b
    ELSE IF b[1] = 0 THEN a
    ELSE IF a[2] >= b[2] THEN AddAligned(a, b) ELSE AddAligned(b, a)

FAdd(a, b) == Call("FAdd", <<a, b>>)

FSubImpl(a, b) == Eager(b, FAdd(a, FNeg(b)))

FSub(a, b) == Call("FSub", <<a, b>>)

FLt(a, b) ==
    IF a[1] < 0 /\ b[1] >= 0 THEN TRUE
    ELSE IF a[1] >= 0 /\ b[1] < 0 THEN FALSE
    ELSE IF a[1] = 0 THEN b[1] > 0
    ELSE IF b[1] = 0 THEN a[1] < 0
    ELSE IF a[2] = b[2] THEN a[1] < b[1]
    ELSE IF a[1] > 0 THEN a[2] < b[2] ELSE a[2] > b[2]

FLe(a, b) == Eager(<<a, b>>, ~FLt(b, a))

FGt(a, b) == Eager(<<a, b>>, FLt(b, a))

FGe(a, b) == Eager(<<a, b>>, ~FLt(a, b))

FMaxImpl(a, b) == Eager(<<a, b>>, IF FLt(a, b) THEN b ELSE a)

FMax(a, b) == Call("FMax", <<a, b>>)

FMinImpl(a, b) == Eager(<<a, b>>, IF FLt(b, a) THEN b ELSE a)

FMin(a, b) == Call("FMin", <<a, b>>)

\* Math.floor as an integer (|a| < 2^31).
FFloorImpl(a) ==
    IF a[2] >= 0 THEN a[1] * Pow10(a[2])
    ELSE IF a[2] < -8 THEN (IF a[1] < 0 THEN -1 ELSE 0)
    ELSE a[1] \div Pow10(-a[2])

FFloor(a) == Call("FFloor", <<a>>)

\* Math.round as an integer: the nearest integer, a half rounding up.
FRoundImpl(a) == Eager(a, FFloor(FAdd(a, Half)))

FRound(a) == Call("FRound", <<a>>)

\* Math.round(x * 100) / 100 and Math.round(x * 10) / 10.
Round2Impl(x) == Eager(x, Num(FRound(FMul(x, FromInt(100))), -2))

Round2(x) == Call("Round2", <<x>>)

Round1Impl(x) == Eager(x, Num(FRound(FMul(x, FromInt(10))), -1))

Round1(x) == Call("Round1", <<x>>)

(* ------------------------------------------------------------------ *)
(* Math.* functions, by range reduction and power series               *)
(* ------------------------------------------------------------------ *)

Pi == <<31415927, -7>>

HalfPi == <<15707963, -7>>

Ln10 == <<23025851, -7>>

Ln2 == <<69314718, -8>>

Euler == <<27182818, -7>>

Two == <<20000000, -7>>

NewtonSqrtImpl(v, y, n) ==
    Iterate(LAMBDA i, r : FMul(Half, FAdd(r, FDiv(v, r))), 1, n, y)

NewtonSqrt(v, y, n) == Call("NewtonSqrt", <<v, y, n>>)

\* Math.sqrt, v >= 0.
FSqrtImpl(v) ==
    IF v[1] = 0 THEN Zero
    ELSE LET h == v[2] \div 2
             g == IF v[2] % 2 = 0 THEN Num(56, h + 2) ELSE Num(178, h + 2)
         IN  Eager(g, NewtonSqrt(v, g, 6))

FSqrt(v) == Call("FSqrt", <<v>>)

\* 1 + f/1 (1 + f/2 (1 + ... (1 + f/k s))), 0 <= f < 1.
ExpSeriesImpl(f, k, s) ==
    Iterate(LAMBDA i, r : FAdd(One, FDiv(FMul(f, r), FromInt(k + 1 - i))), 1, k, s)

ExpSeries(f, k, s) == Call("ExpSeries", <<f, k, s>>)

EulerPowImpl(n) == Iterate(LAMBDA i, r : FMul(Euler, r), 1, n, One)

EulerPow(n) == Call("EulerPow", <<n>>)

ExpPosImpl(v) ==
    LET n == FFloor(v)
        f == FSub(v, FromInt(n))
        p == EulerPow(n)
        e == ExpSeries(f, 12, One)
    IN  Eager(<<v, f, p, e>>, FMul(p, e))

ExpPos(v) == Call("ExpPos", <<v>>)

\* Math.exp.
FExpImpl(v) ==
    IF v[1] < 0
    THEN LET r == ExpPos(FNeg(v))
         IN  Eager(r, FDiv(One, r))
    ELSE ExpPos(v)

FExp(v) == Call("FExp", <<v>>)

\* 1/1 + y2 (1/3 + y2 (1/5 + ... (1/k + y2 s))), k odd.
AtanhSeriesImpl(y2, k, s) ==
    Iterate(LAMBDA i, r : FAdd(FDiv(One, FromInt(k + 2 - 2 * i)), FMul(y2, r)),
            1, (k + 1) \div 2, s)

AtanhSeries(y2, k, s) == Call("AtanhSeries", <<y2, k, s>>)

\* Natural logarithm, v > 0.
FLnImpl(v) ==
    LET t == <<v[1], -7>>
        r == IF v[1] >= 80000000 THEN 3 ELSE IF v[1] >= 40000000 THEN 2
             ELSE IF v[1] >= 20000000 THEN 1 ELSE 0
        u == FDiv(t, FromInt(IF r = 3 THEN 8 ELSE IF r = 2 THEN 4 ELSE IF r = 1 THEN 2 ELSE 1))
        y == FDiv(FSub(u, One), FAdd(u, One))
        y2 == FMul(y, y)
        series == AtanhSeries(y2, 15, FDiv(One, FromInt(17)))
        lnu == FMul(Two, FMul(y, series))
    IN  Eager(<<v, u, y, y2, series, lnu>>,
              FAdd(FAdd(FMul(FromInt(v[2] + 7), Ln10), FMul(FromInt(r), Ln2)), lnu))

FLn(v) == Call("FLn", <<v>>)

\* Math.log10, v > 0.
FLog10Impl(v) ==
    LET l == FLn(v)
    IN  Eager(l, FDiv(l, Ln10))

FLog10(v) == Call("FLog10", <<v>>)

SinSeriesImpl(x2, k, s) ==
    Iterate(LAMBDA i, r :
                LET j == k + 1 - i
                IN  FSub(One, FDiv(FMul(x2, r), FromInt(2 * j * (2 * j + 1)))),
            1, k, s)

SinSeries(x2, k, s) == Call("SinSeries", <<x2, k, s>>)

CosSeriesImpl(x2, k, s) ==
    Iterate(LAMBDA i, r :
                LET j == k + 1 - i
                IN  FSub(One, FDiv(FMul(x2, r), FromInt((2 * j - 1) * 2 * j))),
            1, k, s)

CosSeries(x2, k, s) == Call("CosSeries", <<x2, k, s>>)

\* Math.sin, Math.cos, Math.tan of an angle in radians, 0 <= v < pi/2.
FSinImpl(v) ==
    LET x2 == FMul(v, v)
        series == SinSeries(x2, 8, One)
    IN  Eager(<<v, x2, series>>, FMul(v, series))

FSin(v) == Call("FSin", <<v>>)

FCosImpl(v) ==
    LET x2 == FMul(v, v)
    IN  Eager(<<v, x2>>, CosSeries(x2, 8, One))

FCos(v) == Call("FCos", <<v>>)

FTanImpl(v) ==
    LET s == FSin(v)
        c == FCos(v)
    IN  Eager(<<v, s, c>>, FDiv(s, c))

FTan(v) == Call("FTan", <<v>>)

\* 1/1 - z2 (1/3 - z2 (1/5 - ... (1/k - z2 s))), k odd.
AtanSeriesImpl(z2, k, s) ==
    Iterate(LAMBDA i, r : FSub(FDiv(One, FromInt(k + 2 - 2 * i)), FMul(z2, r)),
            1, (k + 1) \div 2, s)

AtanSeries(z2, k, s) == Call("AtanSeries", <<z2, k, s>>)

HalveTanImpl(y) ==
    LET h == FAdd(One, FMul(y, y))
        r == FSqrt(h)
    IN  Eager(<<y, h, r>>, FDiv(y, FAdd(One, r)))

HalveTan(y) == Call("HalveTan", <<y>>)

AtanSmallImpl(y) ==
    LET z1 == HalveTan(y)
        z == HalveTan(z1)
        z2 == FMul(z, z)
        series == AtanSeries(z2, 11, FDiv(One, FromInt(13)))
    IN  Eager(<<y, z1, z, z2, series>>, FMul(FromInt(4), FMul(z, series)))

AtanSmall(y) == Call("AtanSmall", <<y>>)

\* Math.atan, v >= 0.
FAtanImpl(v) ==
    IF FGt(v, One)
    THEN LET inv == FDiv(One, v)
             a == AtanSmall(inv)
         IN  Eager(<<inv, a>>, FSub(HalfPi, a))
    ELSE AtanSmall(v)

FAtan(v) == Call("FAtan", <<v>>)

\* degrees * Math.PI / 180
RadImpl(deg) == Eager(deg, FDiv(FMul(deg, Pi), FromInt(180)))

Rad(deg) == Call("Rad", <<deg>>)

(* ------------------------------------------------------------------ *)
(* JavaScript values                                                   *)
(* ------------------------------------------------------------------ *)

\* An optional field that is absent (undefined).
undefined == <<>>

\* a || b on numbers: b when a is undefined or 0.
OrElse(a, b) == IF a = undefined \/ a = Zero THEN b ELSE a

\* a != null
NotNull(a) == a # undefined

SqImpl(a) == Eager(a, FMul(a, a))

Sq(a) == Call("Sq", <<a>>)

\* What a call that throws a TypeError yields (a property read of undefined).
TypeError == [threw |-> "TypeError"]

Threw(v) == "threw" \in DOMAIN v

SoilTypes == {"Sand", "Clay", "Silt", "Gravel", "Rock"}

FoundationTypes == {"isolated", "raft", "strip", "circular"}

(* ------------------------------------------------------------------ *)
(* Estimation functions                                                *)
(* ------------------------------------------------------------------ *)

estimatePhiImpl(sptN, type) ==
    CASE type \in {"Sand", "Gravel"} ->
            FMin(FromInt(45),
                 FAdd(FAdd(FromInt(25), FMul(Num(3, -1), sptN)),
                      FMul(FMul(Num(54, -5), sptN), sptN)))
      [] type = "Silt" -> FMin(FromInt(35), FAdd(FromInt(20), FMul(Num(25, -2), sptN)))
      [] type = "Clay" -> Zero
      [] type = "Rock" -> FromInt(40)
      [] OTHER -> FromInt(28)

estimatePhi(sptN, type) == Call("estimatePhi", <<sptN, type>>)

estimateCohesionImpl(sptN, type) ==
    CASE type = "Clay" -> FMul(sptN, Num(625, -2))
      [] type = "Silt" -> FMul(sptN, FromInt(3))
      [] type \in {"Sand", "Gravel"} -> Zero
      [] type = "Rock" -> FromInt(200)
      [] OTHER -> Zero

estimateCohesion(sptN, type) == Call("estimateCohesion", <<sptN, type>>)

estimateGammaImpl(sptN, type) ==
    CASE type = "Sand" ->
            IF FLt(sptN, FromInt(10)) THEN FromInt(16)
            ELSE IF FLt(sptN, FromInt(30)) THEN FromInt(18) ELSE FromInt(20)
      [] type = "Gravel" -> FromInt(20)
      [] type = "Clay" ->
            IF FLt(sptN, FromInt(4)) THEN FromInt(16)
            ELSE IF FLt(sptN, FromInt(8)) THEN FromInt(17) ELSE FromInt(19)
      [] type = "Silt" -> FromInt(17)
      [] type = "Rock" -> FromInt(25)
      [] OTHER -> FromInt(18)

estimateGamma(sptN, type) == Call("estimateGamma", <<sptN, type>>)

estimateEImpl(sptN, type) ==
    CASE type = "Sand" -> FMul(Num(25, -1), sptN)
      [] type = "Gravel" -> FMul(FromInt(3), sptN)
      [] type = "Clay" -> FAdd(FMul(Num(8, -1), sptN), FromInt(5))
      [] type = "Silt" -> FAdd(FMul(Num(15, -1), sptN), FromInt(3))
      [] type = "Rock" -> FromInt(500)
      [] OTHER -> FMul(Two, sptN)

estimateE(sptN, type) == Call("estimateE", <<sptN, type>>)

estimateCcImpl(sptN) ==
    IF FLt(sptN, FromInt(4)) THEN Num(4, -1)
    ELSE IF FLt(sptN, FromInt(8)) THEN Num(25, -2)
    ELSE IF FLt(sptN, FromInt(15)) THEN Num(15, -2)
    ELSE Num(1, -1)

estimateCc(sptN) == Call("estimateCc", <<sptN>>)

\* The test with the interval closed at its bottom: depth > l.depthFrom &&
\* depth <= l.depthTo.
ContainsDepthClosedBelow(l, depth) == FGt(depth, l.depthFrom) /\ FLe(depth, l.depthTo)

\* depth >= l.depthFrom && depth < l.depthTo
ContainsDepth(l, depth) == FGe(depth, l.depthFrom) /\ FLt(depth, l.depthTo)

\* layers.find(l => depth >= l.depthFrom && depth < l.depthTo): the first such
\* layer, or undefined.
findLayerImpl(layers, depth) ==
    LET hits == {i \in 1..Len(layers) : ContainsDepth(layers[i], depth)}
    IN  IF hits = {} THEN undefined
        ELSE layers[CHOOSE i \in hits : \A j \in hits : i <= j]

findLayer(layers, depth) == Call("findLayer", <<layers, depth>>)

getLayerAtDepthImpl(layers, depth) ==
    LET found == findLayer(layers, depth)
    IN  IF found # undefined THEN found ELSE layers[Len(layers)]

getLayerAtDepth(layers, depth) == Call("getLayerAtDepth", <<layers, depth>>)

getElasticModulusImpl(layer) ==
    IF layer.labData.useManual /\ NotNull(layer.labData.elasticModulus)
    THEN layer.labData.elasticModulus
    ELSE estimateE(layer.sptN, layer.type)

getElasticModulus(layer) == Call("getElasticModulus", <<layer>>)

\* The three parameters resolved "lab.useManual && lab.x != null ? lab.x : estimate".
resolvePhiImpl(layer) ==
    IF layer.labData.useManual /\ NotNull(layer.labData.frictionAngle)
    THEN layer.labData.frictionAngle
    ELSE estimatePhi(layer.sptN, layer.type)

resolvePhi(layer) == Call("resolvePhi", <<layer>>)

resolveCohesionImpl(layer) ==
    IF layer.labData.useManual /\ NotNull(layer.labData.cohesion)
    THEN layer.labData.cohesion
    ELSE estimateCohesion(layer.sptN, layer.type)

resolveCohesion(layer) == Call("resolveCohesion", <<layer>>)

resolveGammaImpl(layer) ==
    IF layer.labData.useManual /\ NotNull(layer.labData.unitWeight)
    THEN layer.labData.unitWeight
    ELSE estimateGamma(layer.sptN, layer.type)

resolveGamma(layer) == Call("resolveGamma", <<layer>>)

\* lab.unitWeight || estimateGamma(sptN, type): the flag useManual is not read.
measuredOrEstimatedGamma(layer) ==
    OrElse(layer.labData.unitWeight, estimateGamma(layer.sptN, layer.type))

\* lab.x != null ? lab.x : estimate: the flag useManual is not read.
presentOrEstimatedPhi(layer) ==
    IF NotNull(layer.labData.frictionAngle) THEN layer.labData.frictionAngle
    ELSE estimatePhi(layer.sptN, layer.type)

presentOrEstimatedCohesion(layer) ==
    IF NotNull(layer.labData.cohesion) THEN layer.labData.cohesion
    ELSE estimateCohesion(layer.sptN, layer.type)

\* lab.unitWeight || 18, lab.frictionAngle || 30, lab.cohesion || 0
stressFieldGamma(layer) == OrElse(layer.labData.unitWeight, FromInt(18))

stressFieldPhi(layer) == OrElse(layer.labData.frictionAngle, FromInt(30))

stressFieldCohesion(layer) == OrElse(layer.labData.cohesion, Zero)

\* The unit weight, friction angle and cohesion of one layer as the modules
\* resolve them: analyzeLayers, calculateBearingCapacity and
\* calculateSlopeStability by the flagged rule, the consolidation settlement
\* and getWeightedGamma, calculateFEMAnalysis and generateGraphs by their own.
parametersOfImpl(lyr) ==
    LET flagged == [unitWeight |-> resolveGamma(lyr), frictionAngle |-> resolvePhi(lyr),
                    cohesion |-> resolveCohesion(lyr)]
    IN  [layerAnalysis |-> flagged,
         bearingCapacity |-> flagged,
         slopeStability |-> flagged,
         settlement |-> [unitWeight |-> measuredOrEstimatedGamma(lyr)],
         stressField |-> [unitWeight |-> stressFieldGamma(lyr),
                          frictionAngle |-> stressFieldPhi(lyr),
                          cohesion |-> stressFieldCohesion(lyr)],
         curves |-> [unitWeight |-> measuredOrEstimatedGamma(lyr),
                     frictionAngle |-> presentOrEstimatedPhi(lyr),
                     cohesion |-> presentOrEstimatedCohesion(lyr)]]

parametersOf(lyr) == Call("parametersOf", <<lyr>>)

(* ------------------------------------------------------------------ *)
(* 1. Bearing capacity (Vesic)                                         *)
(* ------------------------------------------------------------------ *)

\* bearingCapacityFactors with Terzaghi's Nc = 5.7 in place of 5.14 at phi = 0.
bearingCapacityFactorsTerzaghi(phiDeg) ==
    IF phiDeg = Zero
    THEN [Nc |-> Num(57, -1), Nq |-> One, Ngamma |-> Zero]
    ELSE LET phi == FDiv(FMul(phiDeg, Pi), FromInt(180))
             tanPhi == FTan(phi)
             Nq == FMul(FExp(FMul(Pi, tanPhi)),
                        Sq(FTan(FAdd(FDiv(Pi, FromInt(4)), FDiv(phi, Two)))))
         IN  [Nc |-> FDiv(FSub(Nq, One), tanPhi), Nq |-> Nq,
              Ngamma |-> FMul(FMul(Two, FAdd(Nq, One)), tanPhi)]

bearingCapacityFactorsImpl(phiDeg) ==
    LET phi == FDiv(FMul(phiDeg, Pi), FromInt(180))
    IN  Eager(<<phi>>,
              IF phiDeg = Zero
              THEN [Nc |-> Num(514, -2), Nq |-> One, Ngamma |-> Zero]
              ELSE LET tanPhi == FTan(phi)
                       Nq == FMul(FExp(FMul(Pi, tanPhi)),
                                  Sq(FTan(FAdd(FDiv(Pi, FromInt(4)), FDiv(phi, Two)))))
                       Nc == FDiv(FSub(Nq, One), tanPhi)
                       Ngamma == FMul(FMul(Two, FAdd(Nq, One)), tanPhi)
                   IN  [Nc |-> Nc, Nq |-> Nq, Ngamma |-> Ngamma])

bearingCapacityFactors(phiDeg) == Call("bearingCapacityFactors", <<phiDeg>>)

\* Math.tan((30 * Math.PI) / 180) and Math.sin((30 * Math.PI) / 180)
Tan30 == FTan(Rad(FromInt(30)))

Sin30 == FSin(Rad(FromInt(30)))

shapeFactorsImpl(B, L, Nq, Nc, type) ==
    IF type = "circular"
    THEN [sc |-> FAdd(One, FDiv(Nq, Nc)), sq |-> FAdd(One, Tan30), sgamma |-> Num(6, -1)]
    ELSE IF type = "strip"
    THEN [sc |-> One, sq |-> One, sgamma |-> One]
    ELSE LET ratio == FDiv(B, L)
         IN  [sc |-> FAdd(One, FMul(ratio, FDiv(Nq, Nc))),
              sq |-> FAdd(One, FMul(ratio, Tan30)),
              sgamma |-> FSub(One, FMul(Num(4, -1), ratio))]

shapeFactors(B, L, Nq, Nc, type) == Call("shapeFactors", <<B, L, Nq, Nc, type>>)

depthFactorsImpl(Df, B) ==
    LET ratio == FDiv(Df, B)
        k == FMul(FMul(Two, Tan30), Sq(FSub(One, Sin30)))
    IN  Eager(<<ratio, k>>,
              IF FLe(ratio, One)
              THEN [dc |-> FAdd(One, FMul(Num(4, -1), ratio)),
                    dq |-> FAdd(One, FMul(k, ratio)),
                    dgamma |-> One]
              ELSE LET arctanRatio == FAtan(ratio)
                   IN  [dc |-> FAdd(One, FMul(Num(4, -1), arctanRatio)),
                        dq |-> FAdd(One, FMul(k, arctanRatio)),
                        dgamma |-> One])

depthFactors(Df, B) == Call("depthFactors", <<Df, B>>)

gammaW == Num(981, -2)

\* The groundwater correction with the submerged weight above the foundation
\* level as well, once the water table is at or above it.
effectiveUnitWeightSubmergedAbove(gamma, gwDepth, Df, B) ==
    LET gammaSub == FSub(gamma, gammaW)
    IN  Eager(<<gammaSub>>,
              IF FGe(gwDepth, FAdd(Df, B))
              THEN [gammaAbove |-> gamma, gammaBelow |-> gamma]
              ELSE IF FLe(gwDepth, Df)
              THEN [gammaAbove |-> gammaSub, gammaBelow |-> gammaSub]
              ELSE LET factor == FDiv(FSub(gwDepth, Df), B)
                   IN  [gammaAbove |-> gamma,
                        gammaBelow |-> FAdd(gammaSub, FMul(factor, FSub(gamma, gammaSub)))])

effectiveUnitWeightImpl(gamma, gwDepth, Df, B) ==
    LET gammaSub == FSub(gamma, gammaW)
    IN  Eager(<<gammaSub>>,
              IF FGe(gwDepth, FAdd(Df, B))
              THEN [gammaAbove |-> gamma, gammaBelow |-> gamma]
              ELSE IF FLe(gwDepth, Df)
              THEN [gammaAbove |-> gamma, gammaBelow |-> gammaSub]
              ELSE LET factor == FDiv(FSub(gwDepth, Df), B)
                   IN  [gammaAbove |-> gamma,
                        gammaBelow |-> FAdd(gammaSub, FMul(factor, FSub(gamma, gammaSub)))])

effectiveUnitWeight(gamma, gwDepth, Df, B) == Call("effectiveUnitWeight", <<gamma, gwDepth, Df, B>>)

\* B, L and the plan area as calculateBearingCapacity and calculateSettlement
\* derive them.
footingBImpl(foundation) ==
    IF foundation.type = "circular" THEN OrElse(foundation.diameter, Two)
    ELSE foundation.width

footingB(foundation) == Call("footingB", <<foundation>>)

footingLImpl(foundation) ==
    IF foundation.type = "circular" THEN footingB(foundation)
    ELSE IF foundation.type = "strip" THEN FMul(footingB(foundation), FromInt(10))
    ELSE foundation.length

footingL(foundation) == Call("footingL", <<foundation>>)

planAreaImpl(type, B, L) ==
    IF type = "circular" THEN FMul(Pi, Sq(FDiv(B, Two))) ELSE FMul(B, L)

planArea(type, B, L) == Call("planArea", <<type, B, L>>)

\* layers.find(l => depth >= l.depthFrom && depth < l.depthTo) || layers[0]
foundationLayerAt(layers, depth) ==
    LET found == findLayer(layers, depth)
    IN  IF found # undefined THEN found ELSE layers[1]

\* The unrounded values of calculateBearingCapacity.
bearingCapacityRawImpl(layers, foundation) ==
    LET foundationLayer == foundationLayerAt(layers, foundation.depth)
        phi == resolvePhi(foundationLayer)
        c == resolveCohesion(foundationLayer)
        gamma == resolveGamma(foundationLayer)
        B == footingB(foundation)
        L == footingL(foundation)
        Df == foundation.depth
        targetFos == OrElse(foundation.targetFos, FromInt(3))
        N == bearingCapacityFactors(phi)
        sf == shapeFactors(B, L, N.Nq, N.Nc, foundation.type)
        df == depthFactors(Df, B)
        gw == effectiveUnitWeight(gamma, foundation.groundwaterDepth, Df, B)
        q == FMul(gw.gammaAbove, Df)
        q_ult == FAdd(FAdd(FMul(FMul(FMul(c, N.Nc), sf.sc), df.dc),
                           FMul(FMul(FMul(q, N.Nq), sf.sq), df.dq)),
                      FMul(FMul(FMul(FMul(FMul(Half, gw.gammaBelow), B), N.Ngamma),
                                sf.sgamma), df.dgamma))
        q_allow == FDiv(q_ult, targetFos)
        area == planArea(foundation.type, B, L)
        appliedPressure == FDiv(foundation.load, area)
        actualFos == FDiv(q_ult, appliedPressure)
    IN  Eager(<<foundationLayer, phi, c, gamma, B, L, Df, targetFos, N, sf, df,
                gw, q, q_ult, q_allow, area, appliedPressure, actualFos>>,
              [q_ult |-> q_ult, q_allow |-> q_allow, factors |-> N, actualFos |-> actualFos,
               phi |-> phi, targetFos |-> targetFos, gamma |-> gamma, gw |-> gw, q |-> q,
               B |-> B, appliedPressure |-> appliedPressure])

bearingCapacityRaw(layers, foundation) == Call("bearingCapacityRaw", <<layers, foundation>>)

\* calculateBearingCapacity with the allowable capacity always taken at a
\* factor of safety of 3.
calculateBearingCapacityFixedFos(layers, foundation) ==
    IF Len(layers) = 0 THEN TypeError
    ELSE LET r == bearingCapacityRaw(layers, foundation)
         IN  [method |-> "Vesic",
              q_ult |-> Round2(r.q_ult),
              q_allow |-> Round2(FDiv(r.q_ult, FromInt(3))),
              factors |-> [Nc |-> Round2(r.factors.Nc),
                           Nq |-> Round2(r.factors.Nq),
                           Ngamma |-> Round2(r.factors.Ngamma)],
              factorOfSafety |-> Round2(r.actualFos)]

calculateBearingCapacityImpl(layers, foundation) ==
    IF Len(layers) = 0 THEN TypeError
    ELSE LET r == bearingCapacityRaw(layers, foundation)
         IN  [method |-> "Vesic",
              q_ult |-> Round2(r.q_ult),
              q_allow |-> Round2(r.q_allow),
              factors |-> [Nc |-> Round2(r.factors.Nc),
                           Nq |-> Round2(r.factors.Nq),
                           Ngamma |-> Round2(r.factors.Ngamma)],
              factorOfSafety |-> Round2(r.actualFos)]

calculateBearingCapacity(layers, foundation) == Call("calculateBearingCapacity", <<layers, foundation>>)

(* ------------------------------------------------------------------ *)
(* 2. Settlement                                                       *)
(* ------------------------------------------------------------------ *)

\* The loop of getWeightedGamma from layer i on: <<totalWeight, totalThickness>>.
RECURSIVE weightedGammaLoop(_, _, _, _, _)
weightedGammaLoop(layers, depth, i, totalWeight, totalThickness) ==
    IF i > Len(layers) THEN <<totalWeight, totalThickness>>
    ELSE LET layer == layers[i]
         IN  IF FGe(layer.depthFrom, depth) THEN <<totalWeight, totalThickness>>
             ELSE LET effectiveBottom == FMin(layer.depthTo, depth)
                      thickness == FSub(effectiveBottom, layer.depthFrom)
                      gamma == measuredOrEstimatedGamma(layer)
                  IN  IF FLe(thickness, Zero)
                      THEN weightedGammaLoop(layers, depth, i + 1, totalWeight,
                                             totalThickness)
                      ELSE weightedGammaLoop(layers, depth, i + 1,
                                             FAdd(totalWeight, FMul(gamma, thickness)),
                                             FAdd(totalThickness, thickness))

getWeightedGammaImpl(layers, depth) ==
    LET t == weightedGammaLoop(layers, depth, 1, Zero, Zero)
    IN  IF FGt(t[2], Zero) THEN FDiv(t[1], t[2]) ELSE FromInt(18)

getWeightedGamma(layers, depth) == Call("getWeightedGamma", <<layers, depth>>)

numSublayers == 10

\* The strain influence factor of sub-layer i (before Math.max(0, Iz)).
strainInfluenceImpl(isSquare, B, influenceDepth, zRatio) ==
    IF isSquare
    THEN LET peakRatio == FDiv(FMul(Half, B), influenceDepth)
         IN  IF FLe(zRatio, peakRatio)
             THEN FAdd(Num(1, -1),
                       FMul(FSub(Half, Num(1, -1)), FDiv(zRatio, peakRatio)))
             ELSE FMul(Half, FSub(One, FDiv(FSub(zRatio, peakRatio),
                                            FSub(One, peakRatio))))
    ELSE LET peakRatio == FDiv(B, influenceDepth)
         IN  IF FLe(zRatio, peakRatio)
             THEN FAdd(Num(2, -1),
                       FMul(FSub(Half, Num(2, -1)), FDiv(zRatio, peakRatio)))
             ELSE FMul(Half, FSub(One, FDiv(FSub(zRatio, peakRatio),
                                            FSub(One, peakRatio))))

strainInfluence(isSquare, B, influenceDepth, zRatio) == Call("strainInfluence", <<isSquare, B, influenceDepth, zRatio>>)

\* One round of the sub-layer loop: settlement += (Iz / E) * dz when E > 0.
elasticStepImpl(layers, isSquare, B, Df, influenceDepth, dz, i, settlement) ==
    LET zMid == FMul(FAdd(FromInt(i), Half), dz)
        zRatio == FDiv(zMid, influenceDepth)
        Iz == FMax(Zero, strainInfluence(isSquare, B, influenceDepth, zRatio))
        actualDepth == FAdd(Df, zMid)
        layer == getLayerAtDepth(layers, actualDepth)
        E == FMul(getElasticModulus(layer), FromInt(1000))
    IN  Eager(<<zMid, zRatio, Iz, actualDepth, layer, E>>,
              IF FGt(E, Zero) THEN FAdd(settlement, FMul(FDiv(Iz, E), dz))
              ELSE settlement)

elasticStep(layers, isSquare, B, Df, influenceDepth, dz, i, settlement) == Call("elasticStep", <<layers, isSquare, B, Df, influenceDepth, dz, i, settlement>>)

\* for (i = 0; i < numSublayers; i++)
elasticLoopImpl(layers, isSquare, B, Df, influenceDepth, dz, i, settlement) ==
    Iterate(LAMBDA j, acc : elasticStep(layers, isSquare, B, Df, influenceDepth, dz, j, acc),
            i, numSublayers - 1, settlement)

elasticLoop(layers, isSquare, B, Df, influenceDepth, dz, i, settlement) == Call("elasticLoop", <<layers, isSquare, B, Df, influenceDepth, dz, i, settlement>>)

\* L = strip ? B * 10 : foundation.length; isSquare = L / B < 2
isSquareOf(foundation, B) ==
    LET L == IF foundation.type = "strip" THEN FMul(B, FromInt(10))
             ELSE foundation.length
    IN  FLt(FDiv(L, B), Two)

\* influenceDepth = isSquare ? 2 * B : 4 * B
influenceDepthOf(foundation, B) ==
    IF isSquareOf(foundation, B) THEN FMul(Two, B) ELSE FMul(FromInt(4), B)

\* The elastic settlement with the embedment correction 1 - q0/deltaQ in
\* place of 1 - 0.5 * (q0/deltaQ).
calculateElasticSettlementFullCorrection(layers, foundation, B, Df, qApplied) ==
    LET gamma == getWeightedGamma(layers, Df)
        q0 == FMul(gamma, Df)
        deltaQ == FSub(qApplied, q0)
    IN  IF FLe(deltaQ, Zero) THEN Zero
        ELSE LET C1 == FSub(One, FDiv(q0, deltaQ))
                 C2 == One
                 L == IF foundation.type = "strip" THEN FMul(B, FromInt(10))
                      ELSE foundation.length
                 isSquare == FLt(FDiv(L, B), Two)
                 influenceDepth == IF isSquare THEN FMul(Two, B) ELSE FMul(FromInt(4), B)
                 dz == FDiv(influenceDepth, FromInt(numSublayers))
                 settlement == elasticLoop(layers, isSquare, B, Df, influenceDepth, dz,
                                           0, Zero)
             IN  Eager(<<C1, C2, L, isSquare, influenceDepth, dz, settlement>>,
                       FMul(FMul(FMul(FMul(FMax(Zero, C1), C2), deltaQ), settlement),
                            FromInt(1000)))

\* The elastic settlement with the depth correction C1 as it comes, negative
\* or not.
calculateElasticSettlementUnclamped(layers, foundation, B, Df, qApplied) ==
    LET gamma == getWeightedGamma(layers, Df)
        q0 == FMul(gamma, Df)
        deltaQ == FSub(qApplied, q0)
    IN  IF FLe(deltaQ, Zero) THEN Zero
        ELSE LET C1 == FSub(One, FMul(Half, FDiv(q0, deltaQ)))
                 C2 == One
                 L == IF foundation.type = "strip" THEN FMul(B, FromInt(10))
                      ELSE foundation.length
                 isSquare == FLt(FDiv(L, B), Two)
                 influenceDepth == IF isSquare THEN FMul(Two, B) ELSE FMul(FromInt(4), B)
                 dz == FDiv(influenceDepth, FromInt(numSublayers))
                 settlement == elasticLoop(layers, isSquare, B, Df, influenceDepth, dz,
                                           0, Zero)
             IN  Eager(<<C1, C2, L, isSquare, influenceDepth, dz, settlement>>,
                       FMul(FMul(FMul(FMul(C1, C2), deltaQ), settlement), FromInt(1000)))

calculateElasticSettlementImpl(layers, foundation, B, Df, qApplied) ==
    LET gamma == getWeightedGamma(layers, Df)
        q0 == FMul(gamma, Df)
        deltaQ == FSub(qApplied, q0)
    IN  IF FLe(deltaQ, Zero) THEN Zero
        ELSE LET C1 == FSub(One, FMul(Half, FDiv(q0, deltaQ)))
                 C2 == One
                 isSquare == isSquareOf(foundation, B)
                 influenceDepth == influenceDepthOf(foundation, B)
                 dz == FDiv(influenceDepth, FromInt(numSublayers))
                 settlement == elasticLoop(layers, isSquare, B, Df, influenceDepth, dz,
                                           0, Zero)
             IN  Eager(<<C1, C2, isSquare, influenceDepth, dz, settlement>>,
                       FMul(FMul(FMul(FMul(FMax(Zero, C1), C2), deltaQ), settlement),
                            FromInt(1000)))

calculateElasticSettlement(layers, foundation, B, Df, qApplied) == Call("calculateElasticSettlement", <<layers, foundation, B, Df, qApplied>>)

\* layer.type === Clay || layer.type === Silt, and not wholly above the foundation.
consolidates(layer, Df) == layer.type \in {"Clay", "Silt"} /\ ~FLe(layer.depthTo, Df)

\* One layer's term with the whole thickness of the layer, depthTo - depthFrom,
\* in place of the thickness below the foundation.
primaryOfLayerFullThickness(layer, foundation, B, Df, qApplied) ==
    LET lab == layer.labData
        Cc == OrElse(lab.cc, estimateCc(layer.sptN))
        gamma == measuredOrEstimatedGamma(layer)
        top == FMax(layer.depthFrom, Df)
        H == FSub(layer.depthTo, layer.depthFrom)
        zMid == FDiv(FAdd(top, layer.depthTo), Two)
        sigma0 == FMul(gamma, zMid)
        z == FSub(zMid, Df)
        len == OrElse(foundation.length, B)
        deltaStress == FDiv(FMul(qApplied, FMul(B, len)),
                            FMul(FAdd(B, z), FAdd(len, z)))
        e0 == FAdd(Half, FMul(Cc, Two))
    IN  Eager(<<lab, Cc, gamma, top, H, zMid, sigma0, z, len, deltaStress, e0>>,
              IF FGt(sigma0, Zero)
              THEN LET Sc == FMul(FDiv(FMul(Cc, H), FAdd(One, e0)),
                                  FLog10(FDiv(FAdd(sigma0, deltaStress), sigma0)))
                   IN  FMul(FMax(Zero, Sc), FromInt(1000))
              ELSE Zero)

\* One layer's term of calculatePrimaryConsolidation (mm).
primaryOfLayerImpl(layer, foundation, B, Df, qApplied) ==
    LET lab == layer.labData
        Cc == OrElse(lab.cc, estimateCc(layer.sptN))
        gamma == measuredOrEstimatedGamma(layer)
        top == FMax(layer.depthFrom, Df)
        H == FSub(layer.depthTo, top)
        zMid == FDiv(FAdd(top, layer.depthTo), Two)
        sigma0 == FMul(gamma, zMid)
        z == FSub(zMid, Df)
        len == OrElse(foundation.length, B)
        deltaStress == FDiv(FMul(qApplied, FMul(B, len)),
                            FMul(FAdd(B, z), FAdd(len, z)))
        e0 == FAdd(Half, FMul(Cc, Two))
    IN  Eager(<<lab, Cc, gamma, top, H, zMid, sigma0, z, len, deltaStress, e0>>,
              IF FGt(sigma0, Zero)
              THEN LET Sc == FMul(FDiv(FMul(Cc, H), FAdd(One, e0)),
                                  FLog10(FDiv(FAdd(sigma0, deltaStress), sigma0)))
                   IN  FMul(FMax(Zero, Sc), FromInt(1000))
              ELSE Zero)

primaryOfLayer(layer, foundation, B, Df, qApplied) == Call("primaryOfLayer", <<layer, foundation, B, Df, qApplied>>)

RECURSIVE primaryLoop(_, _, _, _, _, _, _)
primaryLoop(layers, foundation, B, Df, qApplied, i, totalSettlement) ==
    IF i > Len(layers) THEN totalSettlement
    ELSE primaryLoop(layers, foundation, B, Df, qApplied, i + 1,
                     IF consolidates(layers[i], Df)
                     THEN FAdd(totalSettlement,
                               primaryOfLayer(layers[i], foundation, B, Df, qApplied))
                     ELSE totalSettlement)

calculatePrimaryConsolidationImpl(layers, foundation, B, Df, qApplied) ==
    primaryLoop(layers, foundation, B, Df, qApplied, 1, Zero)

calculatePrimaryConsolidation(layers, foundation, B, Df, qApplied) == Call("calculatePrimaryConsolidation", <<layers, foundation, B, Df, qApplied>>)

Tv90 == Num(848, -3)

\* t for U = 90% of a layer: 0.848 * Hdr * Hdr / cv, Hdr = H / 2.
timeT90Impl(layer, Df) ==
    LET cv == OrElse(layer.labData.cv, Half)
        H == FSub(layer.depthTo, FMax(layer.depthFrom, Df))
        Hdr == FDiv(H, Two)
    IN  Eager(<<cv, H, Hdr>>,
              FDiv(FMul(FMul(Tv90, Hdr), Hdr), cv))

timeT90(layer, Df) == Call("timeT90", <<layer, Df>>)

\* One layer's term of calculateSecondaryConsolidation (mm).
secondaryOfLayerImpl(layer, Df) ==
    LET cAlpha == OrElse(layer.labData.cAlpha, Num(5, -3))
        H == FSub(layer.depthTo, FMax(layer.depthFrom, Df))
        tp == timeT90(layer, Df)
        tDesign == FMax(FMul(tp, Two), FromInt(30))
    IN  Eager(<<cAlpha, H, tp, tDesign>>,
              IF FGt(tp, Zero)
              THEN LET Ss == FMul(FMul(cAlpha, H), FLog10(FDiv(tDesign, tp)))
                   IN  FMul(FMax(Zero, Ss), FromInt(1000))
              ELSE Zero)

secondaryOfLayer(layer, Df) == Call("secondaryOfLayer", <<layer, Df>>)

RECURSIVE secondaryLoop(_, _, _, _)
secondaryLoop(layers, Df, i, totalSecondary) ==
    IF i > Len(layers) THEN totalSecondary
    ELSE secondaryLoop(layers, Df, i + 1,
                       IF consolidates(layers[i], Df)
                       THEN FAdd(totalSecondary, secondaryOfLayer(layers[i], Df))
                       ELSE totalSecondary)

calculateSecondaryConsolidationImpl(layers, foundation) ==
    secondaryLoop(layers, foundation.depth, 1, Zero)

calculateSecondaryConsolidation(layers, foundation) == Call("calculateSecondaryConsolidation", <<layers, foundation>>)

RECURSIVE maxTimeLoop(_, _, _, _)
maxTimeLoop(layers, Df, i, maxTime) ==
    IF i > Len(layers) THEN maxTime
    ELSE maxTimeLoop(layers, Df, i + 1,
                     IF consolidates(layers[i], Df)
                     THEN FMax(maxTime, timeT90(layers[i], Df))
                     ELSE maxTime)

\* The text with days up to a tenth of a year in place of a twelfth.
calculateConsolidationTimeTenth(layers, foundation) ==
    LET maxTime == maxTimeLoop(layers, foundation.depth, 1, Zero)
    IN  IF FLe(maxTime, Zero) THEN [value |-> Zero, unit |-> "< 1 Month"]
        ELSE IF FLt(maxTime, FDiv(One, FromInt(10)))
        THEN [value |-> FromInt(FRound(FMul(maxTime, FromInt(365)))), unit |-> "Days"]
        ELSE IF FLt(maxTime, One)
        THEN [value |-> FromInt(FRound(FMul(maxTime, FromInt(12)))), unit |-> "Months"]
        ELSE [value |-> Round1(maxTime), unit |-> "Years"]

\* The text of calculateConsolidationTime: a number and its unit.
\* toFixed(1) is the value rounded to one decimal.
calculateConsolidationTimeImpl(layers, foundation) ==
    LET maxTime == maxTimeLoop(layers, foundation.depth, 1, Zero)
    IN  IF FLe(maxTime, Zero) THEN [value |-> Zero, unit |-> "< 1 Month"]
        ELSE IF FLt(maxTime, FDiv(One, FromInt(12)))
        THEN [value |-> FromInt(FRound(FMul(maxTime, FromInt(365)))), unit |-> "Days"]
        ELSE IF FLt(maxTime, One)
        THEN [value |-> FromInt(FRound(FMul(maxTime, FromInt(12)))), unit |-> "Months"]
        ELSE [value |-> Round1(maxTime), unit |-> "Years"]

calculateConsolidationTime(layers, foundation) == Call("calculateConsolidationTime", <<layers, foundation>>)

\* The status with the thresholds doubled (50 mm and 100 mm).
settlementStatusLenient(total) ==
    IF FLt(total, FromInt(50)) THEN "Safe"
    ELSE IF FLt(total, FromInt(100)) THEN "Warning"
    ELSE "Failure"

\* if (total < 25) 'Safe' else if (total < 50) 'Warning' else 'Failure'
settlementStatusImpl(total) ==
    IF FLt(total, FromInt(25)) THEN "Safe"
    ELSE IF FLt(total, FromInt(50)) THEN "Warning"
    ELSE "Failure"

settlementStatus(total) == Call("settlementStatus", <<total>>)

\* The unrounded components of calculateSettlement.
settlementRawImpl(layers, foundation) ==
    LET B == footingB(foundation)
        L == footingL(foundation)
        Df == foundation.depth
        area == planArea(foundation.type, B, L)
        appliedPressure == FDiv(foundation.load, area)
        elastic == calculateElasticSettlement(layers, foundation, B, Df, appliedPressure)
        primary == calculatePrimaryConsolidation(layers, foundation, B, Df,
                                                 appliedPressure)
        secondary == calculateSecondaryConsolidation(layers, foundation)
    IN  Eager(<<B, L, Df, area, appliedPressure, elastic, primary, secondary>>,
              [elastic |-> elastic, primary |-> primary, secondary |-> secondary,
               total |-> FAdd(FAdd(elastic, primary), secondary),
               appliedPressure |-> appliedPressure,
               influenceDepth |-> influenceDepthOf(foundation, B)])

settlementRaw(layers, foundation) == Call("settlementRaw", <<layers, foundation>>)

calculateSettlementImpl(layers, foundation) ==
    LET r == settlementRaw(layers, foundation)
    IN  [method |-> "Schmertmann + Consolidation",
         total |-> Round2(r.total),
         elastic |-> Round2(r.elastic),
         primary |-> Round2(r.primary),
         secondary |-> Round2(r.secondary),
         timeToMaxSettlement |-> calculateConsolidationTime(layers, foundation),
         status |-> settlementStatus(r.total)]

calculateSettlement(layers, foundation) == Call("calculateSettlement", <<layers, foundation>>)

(* ------------------------------------------------------------------ *)
(* 3. Foundation design (ACI 318)                                      *)
(* ------------------------------------------------------------------ *)

\* Vu = load - qApplied * (columnSize + d)^2
punchingDemandImpl(load, qApplied, columnSize, d) ==
    FSub(load, FMul(qApplied, Sq(FAdd(columnSize, d))))

punchingDemand(load, qApplied, columnSize, d) == Call("punchingDemand", <<load, qApplied, columnSize, d>>)

\* The capacity with a strength that falls as the grade rises
\* (sqrt(28 * 28 / fc) in place of sqrt(fc)).
punchingCapacityInverseGrade(fc, columnSize, d) ==
    LET bo == FMul(FromInt(4), FAdd(columnSize, d))
    IN  FMul(FMul(FMul(FMul(FMul(Num(75, -2), Num(33, -2)),
                            FSqrt(FDiv(FromInt(784), fc))), bo), d),
             FromInt(1000))

\* phiVc = 0.75 * 0.33 * sqrt(fc) * bo * d * 1000, bo = 4 * (columnSize + d)
punchingCapacityImpl(fc, columnSize, d) ==
    LET bo == FMul(FromInt(4), FAdd(columnSize, d))
    IN  FMul(FMul(FMul(FMul(FMul(Num(75, -2), Num(33, -2)), FSqrt(fc)), bo), d),
             FromInt(1000))

punchingCapacity(fc, columnSize, d) == Call("punchingCapacity", <<fc, columnSize, d>>)

\* The comparison against the capacity without its reduction factor 0.75.
punchingHoldsUnfactored(load, qApplied, columnSize, fc, d) ==
    FLe(FMul(Num(75, -2), punchingDemand(load, qApplied, columnSize, d)),
        punchingCapacity(fc, columnSize, d))

punchingHoldsImpl(load, qApplied, columnSize, fc, d) ==
    FLe(punchingDemand(load, qApplied, columnSize, d), punchingCapacity(fc, columnSize, d))

punchingHolds(load, qApplied, columnSize, fc, d) == Call("punchingHolds", <<load, qApplied, columnSize, fc, d>>)

MaxIter == 20

\* The loop with four more rounds than the 20 of the code.
solveDepthLongRun(load, qApplied, columnSize, fc, d, iter) ==
    Iterate(LAMBDA i, r : IF punchingHolds(load, qApplied, columnSize, fc, r) THEN r
                          ELSE FAdd(r, Num(5, -2)),
            iter, MaxIter + 3, d)

\* for (iter = 0; iter < 20; iter++) { if (Vu <= phiVc) break; d += 0.05 }
\* A round that finds Vu <= phiVc leaves the loop, so d stays as it is in
\* every later round.
solveDepthImpl(load, qApplied, columnSize, fc, d, iter) ==
    Iterate(LAMBDA i, r : IF punchingHolds(load, qApplied, columnSize, fc, r) THEN r
                          ELSE FAdd(r, Num(5, -2)),
            iter, MaxIter - 1, d)

solveDepth(load, qApplied, columnSize, fc, d, iter) == Call("solveDepth", <<load, qApplied, columnSize, fc, d, iter>>)

bars == <<[dia |-> 12, area |-> 113], [dia |-> 16, area |-> 201],
          [dia |-> 20, area |-> 314], [dia |-> 25, area |-> 491]>>

\* Math.floor((area / asRequired) * 1000)
barSpacingImpl(area, asRequired) ==
    FFloor(FMul(FDiv(FromInt(area), asRequired), FromInt(1000)))

barSpacing(area, asRequired) == Call("barSpacing", <<area, asRequired>>)

IMin(a, b) == IF a < b THEN a ELSE b

IMax(a, b) == IF a > b THEN a ELSE b

\* The text `Φ${dia} @ ${spacing}mm c/c`, as its two numbers.
RECURSIVE barLoop(_, _)
barLoop(asRequired, i) ==
    IF i > Len(bars)
    THEN LET spacing == barSpacing(314, asRequired)
         IN  [dia |-> 20, spacing |-> IMax(100, IMin(300, (spacing \div 25) * 25))]
    ELSE LET spacing == barSpacing(bars[i].area, asRequired)
         IN  IF spacing >= 100 /\ spacing <= 300
             THEN [dia |-> bars[i].dia, spacing |-> (spacing \div 25) * 25]
             ELSE barLoop(asRequired, i + 1)

\* The suggestion whose fallback spacing is rounded and left as it is, without
\* Math.max(100, Math.min(300, ...)).
generateBarSuggestionUnclamped(asRequired) ==
    LET fits == {i \in 1..Len(bars) :
                    LET s == barSpacing(bars[i].area, asRequired)
                    IN  s >= 100 /\ s <= 300}
    IN  IF fits = {}
        THEN [dia |-> 20, spacing |-> (barSpacing(314, asRequired) \div 25) * 25]
        ELSE LET i == CHOOSE k \in fits : \A j \in fits : k <= j
             IN  [dia |-> bars[i].dia,
                  spacing |-> (barSpacing(bars[i].area, asRequired) \div 25) * 25]

generateBarSuggestionImpl(asRequired) == barLoop(asRequired, 1)

generateBarSuggestion(asRequired) == Call("generateBarSuggestion", <<asRequired>>)

\* The unrounded values of calculateFoundationDesign.
foundationDesignRawImpl(foundation) ==
    LET B == footingB(foundation)
        L == IF foundation.type = "circular" THEN B ELSE foundation.length
        fc == foundation.concreteGrade
        fy == foundation.steelGrade
        area == planArea(foundation.type, B, L)
        qApplied == FDiv(foundation.load, area)
        columnSize == IF foundation.type = "isolated" THEN Num(4, -1)
                      ELSE FMul(FMin(B, L), Num(3, -1))
        d == solveDepth(foundation.load, qApplied, columnSize, fc, Num(3, -1), 0)
        minThickness == Round2(FAdd(d, Num(1, -1)))
        cantilever == FDiv(FSub(B, columnSize), Two)
        Mu == FDiv(FMul(FMul(qApplied, cantilever), cantilever), Two)
        As == FDiv(FMul(Mu, FromInt(1000000)),
                   FMul(FMul(FMul(FMul(Num(9, -1), fy), Num(9, -1)), d), FromInt(1000)))
        hMm == FMul(minThickness, FromInt(1000))
        AsMin == FMul(FMul(Num(18, -4), FromInt(1000)), hMm)
    IN  Eager(<<B, L, fc, fy, area, qApplied, columnSize, d, minThickness, cantilever,
                Mu, As, hMm, AsMin>>,
              [d |-> d, minThickness |-> minThickness, columnSize |-> columnSize,
               qApplied |-> qApplied, As |-> As, AsMin |-> AsMin, finalAs |-> FMax(As, AsMin),
               safe |-> punchingHolds(foundation.load, qApplied, columnSize, fc, d)])

foundationDesignRaw(foundation) == Call("foundationDesignRaw", <<foundation>>)

\* The design that reports the flexural requirement alone, without the
\* minimum amount.
calculateFoundationDesignFlexuralOnly(foundation, qAllow) ==
    LET r == foundationDesignRaw(foundation)
    IN  [minThickness |-> r.minThickness,
         reinforcementArea |-> FromInt(FRound(r.As)),
         barSuggestion |-> generateBarSuggestion(r.As),
         punchingShearCheck |-> IF r.safe THEN "Safe" ELSE "Unsafe",
         notes |-> ""]

calculateFoundationDesignImpl(foundation, qAllow) ==
    LET r == foundationDesignRaw(foundation)
    IN  [minThickness |-> r.minThickness,
         reinforcementArea |-> FromInt(FRound(r.finalAs)),
         barSuggestion |-> generateBarSuggestion(r.finalAs),
         punchingShearCheck |-> IF r.safe THEN "Safe" ELSE "Unsafe",
         notes |-> ""]

calculateFoundationDesign(foundation, qAllow) == Call("calculateFoundationDesign", <<foundation, qAllow>>)

(* ------------------------------------------------------------------ *)
(* 4. Slope stability (infinite slope)                                 *)
(* ------------------------------------------------------------------ *)

slopeFosImpl(layers, foundation) ==
    LET beta == Rad(foundation.slopeAngle)
        layer == layers[1]
        phi == resolvePhi(layer)
        c == resolveCohesion(layer)
        gamma == resolveGamma(layer)
        phiRad == Rad(phi)
        z == OrElse(foundation.depth, Two)
        numerator == FAdd(c, FMul(FMul(FMul(gamma, z), Sq(FCos(beta))), FTan(phiRad)))
        denominator == FMul(FMul(FMul(gamma, z), FSin(beta)), FCos(beta))
    IN  IF FGt(denominator, Zero) THEN FDiv(numerator, denominator) ELSE FromInt(99)

slopeFos(layers, foundation) == Call("slopeFos", <<layers, foundation>>)

\* The slope check with the limit equilibrium value 1.0 as its threshold.
calculateSlopeStabilityUnitThreshold(layers, foundation) ==
    LET slopeAngle == OrElse(foundation.slopeAngle, Zero)
    IN  IF FLe(slopeAngle, Zero) THEN undefined
        ELSE LET fos == slopeFos(layers, foundation)
                 stable == FGe(fos, One)
             IN  [factorOfSafety |-> Round2(fos),
                  status |-> IF stable THEN "Stable" ELSE "Unstable",
                  method |-> "Infinite Slope Method",
                  notes |-> IF stable THEN "stable" ELSE "potentially unstable"]

calculateSlopeStabilityImpl(layers, foundation) ==
    LET slopeAngle == OrElse(foundation.slopeAngle, Zero)
    IN  IF FLe(slopeAngle, Zero) THEN undefined
        ELSE LET fos == slopeFos(layers, foundation)
                 stable == FGe(fos, Num(15, -1))
             IN  [factorOfSafety |-> Round2(fos),
                  status |-> IF stable THEN "Stable" ELSE "Unstable",
                  method |-> "Infinite Slope Method",
                  notes |-> IF stable THEN "stable" ELSE "potentially unstable"]

calculateSlopeStability(layers, foundation) == Call("calculateSlopeStability", <<layers, foundation>>)

(* ------------------------------------------------------------------ *)
(* 5. Stress mesh                                                      *)
(* ------------------------------------------------------------------ *)

\* The stress of a load that concentrates with depth instead of spreading:
\* q (B + z)(L + z) / (B L) under the centre.
boussinesqRectangularConcentrating(q, B, L, xOffset, z) ==
    IF FLe(z, Zero) THEN q
    ELSE LET effectiveB == FAdd(B, z)
             effectiveL == FAdd(L, z)
             centerStress == FDiv(FMul(q, FMul(effectiveB, effectiveL)), FMul(B, L))
             halfB == FDiv(B, Two)
             lateralDecay == FExp(FNeg(Sq(FDiv(xOffset, FAdd(halfB, FMul(z, Half))))))
         IN  FMul(centerStress, lateralDecay)

boussinesqRectangularImpl(q, B, L, xOffset, z) ==
    IF FLe(z, Zero) THEN q
    ELSE LET effectiveB == FAdd(B, z)
             effectiveL == FAdd(L, z)
             centerStress == FDiv(FMul(q, FMul(B, L)), FMul(effectiveB, effectiveL))
             halfB == FDiv(B, Two)
             lateralDecay == FExp(FNeg(Sq(FDiv(xOffset, FAdd(halfB, FMul(z, Half))))))
         IN  FMul(centerStress, lateralDecay)

boussinesqRectangular(q, B, L, xOffset, z) == Call("boussinesqRectangular", <<q, B, L, xOffset, z>>)

nX == 12

nZ == 8

\* The node with the column index divided by nX in place of nX - 1: the last
\* column falls short of +1.5 B.
stressNodeShortSpan(qApplied, B, L, iz, ix) ==
    LET maxDepth == FMul(FromInt(3), B)
        halfWidth == FMul(B, Num(15, -1))
        xv == FAdd(FNeg(halfWidth),
                   FMul(FMul(FDiv(FromInt(ix), FromInt(nX)), Two), halfWidth))
        z == FAdd(Num(1, -1), FMul(FDiv(FromInt(iz), FromInt(nZ - 1)), maxDepth))
        stress == boussinesqRectangular(qApplied, B, L, xv, z)
    IN  Eager(<<maxDepth, halfWidth, xv, z, stress>>,
              [x |-> Round2(xv), z |-> Round2(z), stress |-> Round2(FMax(Zero, stress))])

\* The node pushed for (iz, ix).
stressNodeImpl(qApplied, B, L, iz, ix) ==
    LET maxDepth == FMul(FromInt(3), B)
        halfWidth == FMul(B, Num(15, -1))
        xv == FAdd(FNeg(halfWidth),
                   FMul(FMul(FDiv(FromInt(ix), FromInt(nX - 1)), Two), halfWidth))
        z == FAdd(Num(1, -1), FMul(FDiv(FromInt(iz), FromInt(nZ - 1)), maxDepth))
        stress == boussinesqRectangular(qApplied, B, L, xv, z)
    IN  Eager(<<maxDepth, halfWidth, xv, z, stress>>,
              [x |-> Round2(xv), z |-> Round2(z), stress |-> Round2(FMax(Zero, stress))])

stressNode(qApplied, B, L, iz, ix) == Call("stressNode", <<qApplied, B, L, iz, ix>>)

\* for iz in 0..nZ-1, for ix in 0..nX-1: push, in that order.
stressMeshOfImpl(qApplied, B, L) ==
    [k \in 1..(nZ * nX) |-> stressNode(qApplied, B, L, (k - 1) \div nX, (k - 1) % nX)]

stressMeshOf(qApplied, B, L) == Call("stressMeshOf", <<qApplied, B, L>>)

plasticPointsImpl(plasticRatio) ==
    IF FLt(plasticRatio, Half) THEN "Minimal plastic deformation - soil well within elastic range."
    ELSE IF FLt(plasticRatio, Num(8, -1)) THEN "Some localized plastic zones near footing edges."
    ELSE "Significant plastic zones detected - approaching bearing failure."

plasticPoints(plasticRatio) == Call("plasticPoints", <<plasticRatio>>)

calculateFEMAnalysisImpl(layers, foundation) ==
    LET B == footingB(foundation)
        L == IF foundation.type = "circular" THEN B ELSE foundation.length
        area == planArea(foundation.type, B, L)
        qApplied == FDiv(foundation.load, area)
        stressMesh == stressMeshOf(qApplied, B, L)
        found == findLayer(layers, foundation.depth)
        foundationLayer == IF found # undefined THEN found ELSE layers[1]
        E == FMul(getElasticModulus(foundationLayer), FromInt(1000))
        nu == OrElse(foundationLayer.labData.poissonsRatio, Num(3, -1))
        Is == One
        maxDisp == FMul(FDiv(FMul(FMul(FMul(qApplied, B), FSub(One, FMul(nu, nu))), Is), E),
                        FromInt(1000))
        gamma == stressFieldGamma(foundationLayer)
        phi == stressFieldPhi(foundationLayer)
        c == stressFieldCohesion(foundationLayer)
        shearStrength == FAdd(c, FMul(FMul(gamma, foundation.depth), FTan(Rad(phi))))
        plasticRatio == FDiv(qApplied, shearStrength)
    IN  Eager(<<B, L, area, qApplied, stressMesh, found, foundationLayer, E, nu, Is,
                maxDisp, gamma, phi, c, shearStrength, plasticRatio>>,
              [maxDisplacement |-> Round2(maxDisp),
               maxVonMisesStress |-> Round2(qApplied),
               plasticPoints |-> plasticPoints(plasticRatio),
               meshNodes |-> Len(stressMesh),
               stressMesh |-> stressMesh])

calculateFEMAnalysis(layers, foundation) == Call("calculateFEMAnalysis", <<layers, foundation>>)

(* ------------------------------------------------------------------ *)
(* 6. Graph data                                                       *)
(* ------------------------------------------------------------------ *)

loadSteps == 15

loadSettlementPointImpl(qUlt, totalSettlement, i) ==
    LET maxLoad == FMul(qUlt, Num(15, -1))
        loadFraction == FDiv(FromInt(i), FromInt(loadSteps))
        load == FMul(loadFraction, maxLoad)
        linearSettlement == FMul(totalSettlement, loadFraction)
        nonlinearFactor == FAdd(One, Sq(FDiv(FMul(loadFraction, maxLoad), qUlt)))
        settlement == FMul(linearSettlement, nonlinearFactor)
    IN  Eager(<<maxLoad, loadFraction, load, linearSettlement, nonlinearFactor,
                settlement>>,
              [x |-> Round1(load), y |-> Round2(settlement)])

loadSettlementPoint(qUlt, totalSettlement, i) == Call("loadSettlementPoint", <<qUlt, totalSettlement, i>>)

RECURSIVE maxDepthTo(_, _, _)
maxDepthTo(layers, i, m) ==
    IF i > Len(layers) THEN m
    ELSE maxDepthTo(layers, i + 1, IF FGt(layers[i].depthTo, m) THEN layers[i].depthTo ELSE m)

shearStrengthPointImpl(layers, depth) ==
    LET layer == getLayerAtDepth(layers, FromInt(depth))
        lab == layer.labData
        gamma == measuredOrEstimatedGamma(layer)
        phi == presentOrEstimatedPhi(layer)
        c == presentOrEstimatedCohesion(layer)
        sigma == FMul(gamma, FromInt(depth))
        tau == FAdd(c, FMul(sigma, FTan(Rad(phi))))
    IN  Eager(<<layer, lab, gamma, phi, c, sigma, tau>>,
              [x |-> Round1(FromInt(depth)), y |-> Round1(tau)])

shearStrengthPoint(layers, depth) == Call("shearStrengthPoint", <<layers, depth>>)

\* for (depth = 0; depth <= maxDepth; depth += 1)
shearStrengthCurveImpl(layers) ==
    LET maxDepth == maxDepthTo(layers, 2, layers[1].depthTo)
        n == IF FLt(maxDepth, Zero) THEN 0 ELSE FFloor(maxDepth) + 1
    IN  [k \in 1..n |-> shearStrengthPoint(layers, k - 1)]

shearStrengthCurve(layers) == Call("shearStrengthCurve", <<layers>>)

isClayOrSilt(layer) == layer.type \in {"Clay", "Silt"}

\* t90 of a whole layer, as generateGraphs computes it.
graphT90Impl(layer) ==
    LET cv == OrElse(layer.labData.cv, Half)
        Hdr == FDiv(FSub(layer.depthTo, layer.depthFrom), Two)
    IN  FDiv(FMul(FMul(Tv90, Hdr), Hdr), cv)

graphT90(layer) == Call("graphT90", <<layer>>)

RECURSIVE maxTimeYearsLoop(_, _, _)
maxTimeYearsLoop(layers, i, m) ==
    IF i > Len(layers) THEN m
    ELSE maxTimeYearsLoop(layers, i + 1,
                          IF isClayOrSilt(layers[i])
                          THEN FMax(m, FMul(graphT90(layers[i]), Num(15, -1)))
                          ELSE m)

\* The degree of consolidation U of a layer at time t.
degreeOfConsolidationImpl(layer, t) ==
    LET cv == OrElse(layer.labData.cv, Half)
        Hdr == FDiv(FSub(layer.depthTo, layer.depthFrom), Two)
        Tv == FDiv(FMul(cv, t), FMul(Hdr, Hdr))
        U == IF FLe(Tv, Num(2827, -4))
             THEN FSqrt(FDiv(FMul(FromInt(4), Tv), Pi))
             ELSE FSub(One, FMul(FDiv(FromInt(8), FMul(Pi, Pi)),
                                 FExp(FDiv(FMul(FMul(FNeg(Pi), Pi), Tv), FromInt(4)))))
    IN  Eager(<<cv, Hdr, Tv, U>>,
              FMin(One, FMax(Zero, U)))

degreeOfConsolidation(layer, t) == Call("degreeOfConsolidation", <<layer, t>>)

RECURSIVE sumU(_, _, _, _)
sumU(layers, t, i, totalS) ==
    IF i > Len(layers) THEN totalS
    ELSE sumU(layers, t, i + 1,
              IF isClayOrSilt(layers[i])
              THEN FAdd(totalS, degreeOfConsolidation(layers[i], t))
              ELSE totalS)

timeSteps == 20

timeSettlementPointImpl(layers, totalSettlement, maxTimeYears, i) ==
    LET t == FMul(FDiv(FromInt(i), FromInt(timeSteps)), maxTimeYears)
        totalS == sumU(layers, t, 1, Zero)
        clayLayers == Cardinality({j \in 1..Len(layers) : isClayOrSilt(layers[j])})
        avgU == IF clayLayers > 0 THEN FDiv(totalS, FromInt(clayLayers)) ELSE One
    IN  Eager(<<t, totalS, clayLayers, avgU>>,
              [x |-> Round2(t), y |-> Round2(FMul(totalSettlement, avgU))])

timeSettlementPoint(layers, totalSettlement, maxTimeYears, i) == Call("timeSettlementPoint", <<layers, totalSettlement, maxTimeYears, i>>)

generateGraphsImpl(layers, foundation, qUlt, totalSettlement) ==
    LET maxTimeYears == maxTimeYearsLoop(layers, 1, One)
    IN  Eager(<<maxTimeYears>>,
              [loadSettlement |->
                  [k \in 1..(loadSteps + 1) |-> loadSettlementPoint(qUlt, totalSettlement, k - 1)],
               shearStrength |-> shearStrengthCurve(layers),
               timeSettlement |->
                  [k \in 1..(timeSteps + 1) |->
                      timeSettlementPoint(layers, totalSettlement, maxTimeYears, k - 1)]])

generateGraphs(layers, foundation, qUlt, totalSettlement) == Call("generateGraphs", <<layers, foundation, qUlt, totalSettlement>>)

(* ------------------------------------------------------------------ *)
(* 7. Layer analysis                                                   *)
(* ------------------------------------------------------------------ *)

getDensityDescriptionImpl(sptN, type) ==
    IF type \in {"Clay", "Silt"}
    THEN (IF FLt(sptN, Two) THEN "Very Soft"
          ELSE IF FLt(sptN, FromInt(4)) THEN "Soft"
          ELSE IF FLt(sptN, FromInt(8)) THEN "Medium Stiff"
          ELSE IF FLt(sptN, FromInt(15)) THEN "Stiff"
          ELSE IF FLt(sptN, FromInt(30)) THEN "Very Stiff"
          ELSE "Hard")
    ELSE (IF FLt(sptN, FromInt(4)) THEN "Very Loose"
          ELSE IF FLt(sptN, FromInt(10)) THEN "Loose"
          ELSE IF FLt(sptN, FromInt(30)) THEN "Medium Dense"
          ELSE IF FLt(sptN, FromInt(50)) THEN "Dense"
          ELSE "Very Dense")

getDensityDescription(sptN, type) == Call("getDensityDescription", <<sptN, type>>)

\* One element of analyzeLayers' map.  The two template strings are kept as the
\* values they interpolate.
analyzeLayerImpl(layer) ==
    LET lab == layer.labData
        gamma == resolveGamma(layer)
        phi == resolvePhi(layer)
        c == resolveCohesion(layer)
        E == IF lab.useManual /\ NotNull(lab.elasticModulus) THEN lab.elasticModulus
             ELSE estimateE(layer.sptN, layer.type)
        shearStrengthAtBottom ==
            FAdd(c, FMul(FMul(gamma, layer.depthTo), FTan(Rad(phi))))
        consolidation ==
            IF isClayOrSilt(layer)
            THEN [cc |-> OrElse(lab.cc, estimateCc(layer.sptN)),
                  cr |-> OrElse(lab.cr,
                                IF lab.cc # undefined /\ lab.cc # Zero
                                THEN FDiv(lab.cc, FromInt(5))
                                ELSE FDiv(estimateCc(layer.sptN), FromInt(5))),
                  cv |-> OrElse(lab.cv, Half),
                  cAlpha |-> OrElse(lab.cAlpha, Num(5, -3))]
            ELSE undefined
    IN  Eager(<<lab, gamma, phi, c, E, shearStrengthAtBottom, consolidation>>,
              [depth |-> [from |-> layer.depthFrom, to |-> layer.depthTo],
               description |-> [type |-> layer.type, sptN |-> layer.sptN,
                                density |-> getDensityDescription(layer.sptN, layer.type)],
               params |-> [gamma |-> gamma, phi |-> phi, c |-> c, E |-> E,
                           shearStrengthAtBottom |-> Round1(shearStrengthAtBottom),
                           consolidation |-> consolidation]])

analyzeLayer(layer) == Call("analyzeLayer", <<layer>>)

analyzeLayersImpl(layers) == [i \in 1..Len(layers) |-> analyzeLayer(layers[i])]

analyzeLayers(layers) == Call("analyzeLayers", <<layers>>)

(* ------------------------------------------------------------------ *)
(* Main export                                                         *)
(* ------------------------------------------------------------------ *)

computeFullAnalysisImpl(layers, foundation) ==
    LET analyzedLayers == analyzeLayers(layers)
        bearingCapacity == calculateBearingCapacity(layers, foundation)
    IN  IF Eager(analyzedLayers, Threw(bearingCapacity)) THEN bearingCapacity
        ELSE LET settlement == calculateSettlement(layers, foundation)
                 foundationDesign == calculateFoundationDesign(foundation,
                                                               bearingCapacity.q_allow)
                 slopeStability == calculateSlopeStability(layers, foundation)
                 femAnalysis == calculateFEMAnalysis(layers, foundation)
                 graphs == generateGraphs(layers, foundation, bearingCapacity.q_ult,
                                          settlement.total)
             IN  Eager(<<settlement, foundationDesign, slopeStability, femAnalysis, graphs>>,
                       [layers |-> analyzedLayers,
                        bearingCapacity |-> bearingCapacity,
                        settlement |-> settlement,
                        slopeStability |-> slopeStability,
                        foundationDesign |-> foundationDesign,
                        femAnalysis |-> femAnalysis,
                        graphs |-> graphs])

computeFullAnalysis(layers, foundation) == Call("computeFullAnalysis", <<layers, foundation>>)

(* ------------------------------------------------------------------ *)
(* App: default data                                                   *)
(* ------------------------------------------------------------------ *)

defaultFoundation ==
    [width |-> FromInt(10), length |-> FromInt(10), diameter |-> undefined,
     depth |-> FromInt(2), load |-> FromInt(16000), moment |-> FromInt(4000),
     type |-> "raft", shapeFactor |-> Num(13, -1), groundwaterDepth |-> FromInt(2),
     concreteGrade |-> FromInt(28), steelGrade |-> FromInt(420),
     slopeAngle |-> Zero, targetFos |-> FromInt(3)]

defaultLabData ==
    [useManual |-> FALSE, unitWeight |-> FromInt(19), cohesion |-> Zero,
     frictionAngle |-> FromInt(30), elasticModulus |-> FromInt(50),
     poissonsRatio |-> Num(35, -2), cc |-> undefined, cr |-> undefined,
     cv |-> undefined, cAlpha |-> Num(5, -3)]

defaultSand ==
    [id |-> "1", depthFrom |-> Zero, depthTo |-> FromInt(15), type |-> "Sand",
     sptN |-> FromInt(20),
     labData |-> [defaultLabData EXCEPT !.useManual = TRUE]]

defaultClay ==
    [id |-> "2", depthFrom |-> FromInt(15), depthTo |-> FromInt(22), type |-> "Clay",
     sptN |-> FromInt(8),
     labData |-> [defaultLabData EXCEPT !.useManual = TRUE, !.unitWeight = FromInt(18),
                                        !.frictionAngle = Zero, !.cohesion = FromInt(90),
                                        !.elasticModulus = FromInt(20),
                                        !.poissonsRatio = Num(3, -1),
                                        !.cc = Num(18, -2), !.cv = Num(4, -1),
                                        !.cAlpha = Num(15, -3)]]

defaultLayers == <<defaultSand, defaultClay>>

\* The profiles and foundations of the App model: the default profile and what
\* removeLayer leaves of it, the default foundation and a small isolated
\* footing typed into the foundation form.
AppProfiles == {defaultLayers, <<defaultSand>>, <<defaultClay>>, <<>>}

smallFooting ==
    [defaultFoundation EXCEPT !.type = "isolated", !.width = Two, !.length = Two,
                              !.load = FromInt(1000), !.targetFos = undefined]

AppFoundations == {defaultFoundation, smallFooting}

Languages == {"ar", "en"}

\* runFullAnalysis on the App model's inputs, evaluated once: the pairs
\* <<input, output>>.
analysisTable ==
    {<<in, computeFullAnalysis(in[1], in[2])>> : in \in AppProfiles \X AppFoundations}

runFullAnalysisImpl(layers, foundation) ==
    IF <<layers, foundation>> \in AppProfiles \X AppFoundations
    THEN (CHOOSE p \in analysisTable : p[1] = <<layers, foundation>>)[2]
    ELSE computeFullAnalysis(layers, foundation)

runFullAnalysis(layers, foundation) == Call("runFullAnalysis", <<layers, foundation>>)

(* ------------------------------------------------------------------ *)
(* Analysis service                                                    *)
(* ------------------------------------------------------------------ *)

\* Number.prototype.toFixed(2), kept as the number it prints.
toFixed2Impl(x) == Num(FRound(FMul(x, FromInt(100))), -2)

toFixed2(x) == Call("toFixed2", <<x>>)

remedialSolutionsImpl(lang) ==
    IF lang = "ar"
    THEN <<"ar: Increase foundation depth", "ar: Use gravel bedding",
           "ar: Increase footing dimensions">>
    ELSE <<"Increase foundation depth", "Use gravel bedding",
           "Increase footing dimensions">>

remedialSolutions(lang) == Call("remedialSolutions", <<lang>>)

safeSolutionsImpl(lang) ==
    IF lang = "ar"
    THEN <<"ar: Foundation is safe, no special measures.",
           "ar: Monitor settlement during construction.">>
    ELSE <<"Foundation is safe, no special measures.",
           "Monitor settlement during construction.">>

safeSolutions(lang) == Call("safeSolutions", <<lang>>)

\* The template strings are kept as records of the values they interpolate.
generateFallbackReportImpl(data, lang, today) ==
    LET fos == data.bearingCapacity.factorOfSafety
        solutions == IF data.foundationDesign.punchingShearCheck = "Unsafe"
                        \/ FLt(fos, FromInt(3))
                     THEN remedialSolutions(lang)
                     ELSE safeSolutions(lang)
        riskLevel == IF FLt(fos, Num(15, -1)) THEN "High"
                     ELSE IF FLt(fos, Num(25, -1)) THEN "Medium"
                     ELSE "Low"
        doctorReport == [template |-> "Geotechnical Analysis Report",
                         lang |-> lang,
                         date |-> today,
                         status |-> IF riskLevel = "High" THEN "High Risk" ELSE "Stable",
                         fos |-> toFixed2(fos),
                         verdict |-> IF FGe(fos, FromInt(3)) THEN "acceptable"
                                     ELSE "requires review",
                         total |-> toFixed2(data.settlement.total)]
        designNotes == [template |-> "Reinforcement calculated based on max moment",
                        lang |-> lang,
                        suggested |-> data.foundationDesign.barSuggestion]
    IN  [doctorReport |-> doctorReport,
         recommendations |-> [solutions |-> solutions, riskLevel |-> riskLevel],
         designNotes |-> designNotes]

generateFallbackReport(data, lang, today) == Call("generateFallbackReport", <<data, lang, today>>)

\* An analysis that calibrates: a record's measured friction angle and
\* cohesion replace the estimates in every layer of the record's soil type.
calibrated(layers, calibrationData) ==
    [i \in 1..Len(layers) |->
        IF \E k \in 1..Len(calibrationData) : calibrationData[k].soilType = layers[i].type
        THEN LET rec == calibrationData[CHOOSE k \in 1..Len(calibrationData) :
                                            calibrationData[k].soilType = layers[i].type]
             IN  [layers[i] EXCEPT !.labData.useManual = TRUE,
                                   !.labData.frictionAngle = rec.actualPhi,
                                   !.labData.cohesion = rec.actualC]
        ELSE layers[i]]

analyzeSoilProfileCalibrated(layers, foundation, calibrationData, lang, now) ==
    LET calcResult == runFullAnalysis(calibrated(layers, calibrationData), foundation)
    IN  IF Threw(calcResult) THEN calcResult
        ELSE LET fallback == generateFallbackReport(calcResult, lang, now)
             IN  [timestamp |-> now,
                  layers |-> calcResult.layers,
                  bearingCapacity |-> calcResult.bearingCapacity,
                  settlement |-> calcResult.settlement,
                  slopeStability |-> calcResult.slopeStability,
                  foundationDesign |->
                      [calcResult.foundationDesign EXCEPT !.notes = fallback.designNotes],
                  femAnalysis |-> calcResult.femAnalysis,
                  recommendations |->
                      [solutions |-> fallback.recommendations.solutions,
                       riskLevel |-> fallback.recommendations.riskLevel],
                  graphs |-> calcResult.graphs,
                  doctorReport |-> fallback.doctorReport,
                  isAiGenerating |-> FALSE]

\* now is the value Date.now() returns; calibrationData is accepted and not read.
analyzeSoilProfileImpl(layers, foundation, calibrationData, lang, now) ==
    LET calcResult == runFullAnalysis(layers, foundation)
    IN  IF Threw(calcResult) THEN calcResult
        ELSE LET fallback == generateFallbackReport(calcResult, lang, now)
             IN  [timestamp |-> now,
                  layers |-> calcResult.layers,
                  bearingCapacity |-> calcResult.bearingCapacity,
                  settlement |-> calcResult.settlement,
                  slopeStability |-> calcResult.slopeStability,
                  foundationDesign |->
                      [calcResult.foundationDesign EXCEPT !.notes = fallback.designNotes],
                  femAnalysis |-> calcResult.femAnalysis,
                  recommendations |->
                      [solutions |-> fallback.recommendations.solutions,
                       riskLevel |-> fallback.recommendations.riskLevel],
                  graphs |-> calcResult.graphs,
                  doctorReport |-> fallback.doctorReport,
                  isAiGenerating |-> FALSE]

analyzeSoilProfile(layers, foundation, calibrationData, lang, now) == Call("analyzeSoilProfile", <<layers, foundation, calibrationData, lang, now>>)

(* ------------------------------------------------------------------ *)
(* App: the narration collaborator                                     *)
(* ------------------------------------------------------------------ *)

null == <<>>

\* o[k] of a parsed JSON object: undefined when the key is absent.
get(o, k) == IF k \in DOMAIN o THEN o[k] ELSE undefined

\* { ...a, ...b }: spreading undefined adds nothing.
spread(a, b) ==
    IF b = undefined THEN a
    ELSE [k \in DOMAIN a \cup DOMAIN b |-> IF k \in DOMAIN b THEN b[k] ELSE a[k]]

\* Objects JSON.parse may hand back from the model's reply: the three keys
\* asked for, a reply with keys nobody asked for, and a reply with one key only.
\* A text is a record, as the texts of generateFallbackReport are.
aiComplete ==
    [doctorReport |-> [template |-> "AI report"],
     recommendations |-> [solutions |-> <<"AI solution">>, riskLevel |-> "Medium"],
     designNotes |-> [template |-> "AI design notes"]]

aiExtraKeys ==
    [doctorReport |-> [template |-> "AI report with numbers"],
     recommendations |-> [solutions |-> <<"AI solution">>, riskLevel |-> "High",
                          factorOfSafety |-> One],
     designNotes |-> [template |-> "AI design notes"],
     bearingCapacity |-> [q_ult |-> Zero, q_allow |-> Zero],
     settlement |-> [total |-> Zero, status |-> "Safe"],
     foundationDesign |-> [minThickness |-> Zero],
     isAiGenerating |-> TRUE]

aiPartial == [doctorReport |-> [template |-> "AI report only"]]

AiResponses == {aiComplete, aiExtraKeys, aiPartial}

\* What the catch block of handleEnhanceReport can catch, in the order the
\* throwing statements come: the engine's TypeError, getAIClient's error, the
\* request's rejection or the timeout that wins the race, the empty reply,
\* JSON.parse's SyntaxError.
FailureReasons ==
    {"TypeError", "API Key is missing", "request rejected", "AI generation timed out",
     "AI returned empty response", "SyntaxError"}

\* The merge with the whole response spread over the result:
\* { ...prev, ...aiData, isAiGenerating: false }.
mergeNarrationSpreadAll(prev, aiData) ==
    IF prev = null THEN null
    ELSE [spread(prev, aiData) EXCEPT !.isAiGenerating = FALSE]

\* The state update of the success path:
\* { ...prev, doctorReport, recommendations: { ...prev.recommendations,
\*   ...aiData.recommendations }, foundationDesign: { ...prev.foundationDesign,
\*   notes: aiData.designNotes }, isAiGenerating: false }
mergeNarrationImpl(prev, aiData) ==
    IF prev = null THEN null
    ELSE [prev EXCEPT !.doctorReport = get(aiData, "doctorReport"),
                      !.recommendations = spread(prev.recommendations,
                                                 get(aiData, "recommendations")),
                      !.foundationDesign = [prev.foundationDesign EXCEPT
                                               !.notes = get(aiData, "designNotes")],
                      !.isAiGenerating = FALSE]

mergeNarration(prev, aiData) == Call("mergeNarration", <<prev, aiData>>)

\* prev => prev ? ({ ...prev, isAiGenerating: flag }) : null
setAiGeneratingImpl(prev, flag) ==
    IF prev = null THEN null ELSE [prev EXCEPT !.isAiGenerating = flag]

setAiGenerating(prev, flag) == Call("setAiGenerating", <<prev, flag>>)

(* ------------------------------------------------------------------ *)
(* Function calls                                                     *)
(* ------------------------------------------------------------------ *)

\* A call f(x, y) of one function of the program by another is Call("f",
\* <<x, y>>): the arguments are evaluated first, left to right, as JavaScript
\* evaluates them, and the body fImpl is then applied to their values.
FloatOps == {"FMul", "LongDiv", "FDiv", "AddAligned", "FAdd", "FSub", "FMax", "FMin", "FFloor", "FRound", "Round2", "Round1"}

CallFloat(op, a) ==
    CASE op = "FMul" -> FMulImpl(a[1], a[2])
      [] op = "LongDiv" -> LongDivImpl(a[1], a[2], a[3], a[4])
      [] op = "FDiv" -> FDivImpl(a[1], a[2])
      [] op = "AddAligned" -> AddAlignedImpl(a[1], a[2])
      [] op = "FAdd" -> FAddImpl(a[1], a[2])
      [] op = "FSub" -> FSubImpl(a[1], a[2])
      [] op = "FMax" -> FMaxImpl(a[1], a[2])
      [] op = "FMin" -> FMinImpl(a[1], a[2])
      [] op = "FFloor" -> FFloorImpl(a[1])
      [] op = "FRound" -> FRoundImpl(a[1])
      [] op = "Round2" -> Round2Impl(a[1])
      [] op = "Round1" -> Round1Impl(a[1])

MathOps == {"NewtonSqrt", "FSqrt", "ExpSeries", "EulerPow", "ExpPos", "FExp", "AtanhSeries", "FLn", "FLog10", "SinSeries", "CosSeries", "FSin", "FCos", "FTan", "AtanSeries", "HalveTan", "AtanSmall", "FAtan", "Rad"}

CallMath(op, a) ==
    CASE op = "NewtonSqrt" -> NewtonSqrtImpl(a[1], a[2], a[3])
      [] op = "FSqrt" -> FSqrtImpl(a[1])
      [] op = "ExpSeries" -> ExpSeriesImpl(a[1], a[2], a[3])
      [] op = "EulerPow" -> EulerPowImpl(a[1])
      [] op = "ExpPos" -> ExpPosImpl(a[1])
      [] op = "FExp" -> FExpImpl(a[1])
      [] op = "AtanhSeries" -> AtanhSeriesImpl(a[1], a[2], a[3])
      [] op = "FLn" -> FLnImpl(a[1])
      [] op = "FLog10" -> FLog10Impl(a[1])
      [] op = "SinSeries" -> SinSeriesImpl(a[1], a[2], a[3])
      [] op = "CosSeries" -> CosSeriesImpl(a[1], a[2], a[3])
      [] op = "FSin" -> FSinImpl(a[1])
      [] op = "FCos" -> FCosImpl(a[1])
      [] op = "FTan" -> FTanImpl(a[1])
      [] op = "AtanSeries" -> AtanSeriesImpl(a[1], a[2], a[3])
      [] op = "HalveTan" -> HalveTanImpl(a[1])
      [] op = "AtanSmall" -> AtanSmallImpl(a[1])
      [] op = "FAtan" -> FAtanImpl(a[1])
      [] op = "Rad" -> RadImpl(a[1])

SoilOps == {"Sq", "estimatePhi", "estimateCohesion", "estimateGamma", "estimateE", "estimateCc", "findLayer", "getLayerAtDepth", "getElasticModulus", "resolvePhi", "resolveCohesion", "resolveGamma", "parametersOf"}

CallSoil(op, a) ==
    CASE op = "Sq" -> SqImpl(a[1])
      [] op = "estimatePhi" -> estimatePhiImpl(a[1], a[2])
      [] op = "estimateCohesion" -> estimateCohesionImpl(a[1], a[2])
      [] op = "estimateGamma" -> estimateGammaImpl(a[1], a[2])
      [] op = "estimateE" -> estimateEImpl(a[1], a[2])
      [] op = "estimateCc" -> estimateCcImpl(a[1])
      [] op = "findLayer" -> findLayerImpl(a[1], a[2])
      [] op = "getLayerAtDepth" -> getLayerAtDepthImpl(a[1], a[2])
      [] op = "getElasticModulus" -> getElasticModulusImpl(a[1])
      [] op = "resolvePhi" -> resolvePhiImpl(a[1])
      [] op = "resolveCohesion" -> resolveCohesionImpl(a[1])
      [] op = "resolveGamma" -> resolveGammaImpl(a[1])
      [] op = "parametersOf" -> parametersOfImpl(a[1])

BearingOps == {"bearingCapacityFactors", "shapeFactors", "depthFactors", "effectiveUnitWeight", "footingB", "footingL", "planArea", "bearingCapacityRaw", "calculateBearingCapacity"}

CallBearing(op, a) ==
    CASE op = "bearingCapacityFactors" -> bearingCapacityFactorsImpl(a[1])
      [] op = "shapeFactors" -> shapeFactorsImpl(a[1], a[2], a[3], a[4], a[5])
      [] op = "depthFactors" -> depthFactorsImpl(a[1], a[2])
      [] op = "effectiveUnitWeight" -> effectiveUnitWeightImpl(a[1], a[2], a[3], a[4])
      [] op = "footingB" -> footingBImpl(a[1])
      [] op = "footingL" -> footingLImpl(a[1])
      [] op = "planArea" -> planAreaImpl(a[1], a[2], a[3])
      [] op = "bearingCapacityRaw" -> bearingCapacityRawImpl(a[1], a[2])
      [] op = "calculateBearingCapacity" -> calculateBearingCapacityImpl(a[1], a[2])

\* The three consolidation results of calculateSettlement, unrounded.
consolidationCallImpl(layers, foundation) ==
    LET B == footingB(foundation)
        L == footingL(foundation)
        qApplied == FDiv(foundation.load, planArea(foundation.type, B, L))
    IN  [primary |-> calculatePrimaryConsolidation(layers, foundation, B, foundation.depth,
                                                   qApplied),
         secondary |-> calculateSecondaryConsolidation(layers, foundation),
         time |-> calculateConsolidationTime(layers, foundation)]

\* The clay and silt of a profile below the foundation depth: the other
\* layers removed and a layer the foundation stands in cut off at that depth.
claySiltBelowImpl(layers, Df) ==
    LET kept == SelectSeq(layers, LAMBDA l : l.type \in {"Clay", "Silt"} /\ FGt(l.depthTo, Df))
    IN  [i \in 1..Len(kept) |->
            [kept[i] EXCEPT !.depthFrom = IF FLt(@, Df) THEN Df ELSE @]]

\* addLayer: the profile with a layer from its bottom down.
withLayerAddedImpl(layers, new) ==
    LET lastLayer == layers[Len(layers)]
        newFrom == lastLayer.depthTo
    IN  Append(layers,
               [id |-> "new", depthFrom |-> newFrom,
                depthTo |-> FAdd(newFrom, new.thickness), type |-> new.type,
                sptN |-> new.sptN, labData |-> [defaultLabData EXCEPT !.useManual = TRUE]])

SettlementOps == {"getWeightedGamma", "strainInfluence", "elasticStep", "elasticLoop", "calculateElasticSettlement", "primaryOfLayer", "calculatePrimaryConsolidation", "timeT90", "secondaryOfLayer", "calculateSecondaryConsolidation", "calculateConsolidationTime", "settlementStatus", "settlementRaw", "calculateSettlement", "consolidationCall", "claySiltBelow", "withLayerAdded"}

CallSettlement(op, a) ==
    CASE op = "consolidationCall" -> consolidationCallImpl(a[1], a[2])
      [] op = "claySiltBelow" -> claySiltBelowImpl(a[1], a[2])
      [] op = "withLayerAdded" -> withLayerAddedImpl(a[1], a[2])
      [] op = "getWeightedGamma" -> getWeightedGammaImpl(a[1], a[2])
      [] op = "strainInfluence" -> strainInfluenceImpl(a[1], a[2], a[3], a[4])
      [] op = "elasticStep" -> elasticStepImpl(a[1], a[2], a[3], a[4], a[5], a[6], a[7], a[8])
      [] op = "elasticLoop" -> elasticLoopImpl(a[1], a[2], a[3], a[4], a[5], a[6], a[7], a[8])
      [] op = "calculateElasticSettlement" -> calculateElasticSettlementImpl(a[1], a[2], a[3], a[4], a[5])
      [] op = "primaryOfLayer" -> primaryOfLayerImpl(a[1], a[2], a[3], a[4], a[5])
      [] op = "calculatePrimaryConsolidation" -> calculatePrimaryConsolidationImpl(a[1], a[2], a[3], a[4], a[5])
      [] op = "timeT90" -> timeT90Impl(a[1], a[2])
      [] op = "secondaryOfLayer" -> secondaryOfLayerImpl(a[1], a[2])
      [] op = "calculateSecondaryConsolidation" -> calculateSecondaryConsolidationImpl(a[1], a[2])
      [] op = "calculateConsolidationTime" -> calculateConsolidationTimeImpl(a[1], a[2])
      [] op = "settlementStatus" -> settlementStatusImpl(a[1])
      [] op = "settlementRaw" -> settlementRawImpl(a[1], a[2])
      [] op = "calculateSettlement" -> calculateSettlementImpl(a[1], a[2])

DesignOps == {"punchingDemand", "punchingCapacity", "punchingHolds", "solveDepth", "barSpacing", "generateBarSuggestion", "foundationDesignRaw", "calculateFoundationDesign"}

CallDesign(op, a) ==
    CASE op = "punchingDemand" -> punchingDemandImpl(a[1], a[2], a[3], a[4])
      [] op = "punchingCapacity" -> punchingCapacityImpl(a[1], a[2], a[3])
      [] op = "punchingHolds" -> punchingHoldsImpl(a[1], a[2], a[3], a[4], a[5])
      [] op = "solveDepth" -> solveDepthImpl(a[1], a[2], a[3], a[4], a[5], a[6])
      [] op = "barSpacing" -> barSpacingImpl(a[1], a[2])
      [] op = "generateBarSuggestion" -> generateBarSuggestionImpl(a[1])
      [] op = "foundationDesignRaw" -> foundationDesignRawImpl(a[1])
      [] op = "calculateFoundationDesign" -> calculateFoundationDesignImpl(a[1], a[2])

MeshOps == {"slopeFos", "calculateSlopeStability", "boussinesqRectangular", "stressNode", "stressMeshOf", "plasticPoints", "calculateFEMAnalysis"}

CallMesh(op, a) ==
    CASE op = "slopeFos" -> slopeFosImpl(a[1], a[2])
      [] op = "calculateSlopeStability" -> calculateSlopeStabilityImpl(a[1], a[2])
      [] op = "boussinesqRectangular" -> boussinesqRectangularImpl(a[1], a[2], a[3], a[4], a[5])
      [] op = "stressNode" -> stressNodeImpl(a[1], a[2], a[3], a[4], a[5])
      [] op = "stressMeshOf" -> stressMeshOfImpl(a[1], a[2], a[3])
      [] op = "plasticPoints" -> plasticPointsImpl(a[1])
      [] op = "calculateFEMAnalysis" -> calculateFEMAnalysisImpl(a[1], a[2])

GraphsOps == {"loadSettlementPoint", "shearStrengthPoint", "shearStrengthCurve", "graphT90", "degreeOfConsolidation", "timeSettlementPoint", "generateGraphs", "getDensityDescription", "analyzeLayer", "analyzeLayers", "computeFullAnalysis"}

CallGraphs(op, a) ==
    CASE op = "loadSettlementPoint" -> loadSettlementPointImpl(a[1], a[2], a[3])
      [] op = "shearStrengthPoint" -> shearStrengthPointImpl(a[1], a[2])
      [] op = "shearStrengthCurve" -> shearStrengthCurveImpl(a[1])
      [] op = "graphT90" -> graphT90Impl(a[1])
      [] op = "degreeOfConsolidation" -> degreeOfConsolidationImpl(a[1], a[2])
      [] op = "timeSettlementPoint" -> timeSettlementPointImpl(a[1], a[2], a[3], a[4])
      [] op = "generateGraphs" -> generateGraphsImpl(a[1], a[2], a[3], a[4])
      [] op = "getDensityDescription" -> getDensityDescriptionImpl(a[1], a[2])
      [] op = "analyzeLayer" -> analyzeLayerImpl(a[1])
      [] op = "analyzeLayers" -> analyzeLayersImpl(a[1])
      [] op = "computeFullAnalysis" -> computeFullAnalysisImpl(a[1], a[2])

\* The applied pressure (load / plan area) of one run as each module derives
\* it, and the influence depth of the elastic settlement.
pressureCallImpl(layers, foundation) ==
    [bearing |-> bearingCapacityRaw(layers, foundation).appliedPressure,
     settlement |-> settlementRaw(layers, foundation).appliedPressure,
     design |-> foundationDesignRaw(foundation).qApplied,
     maxVonMisesStress |-> calculateFEMAnalysis(layers, foundation).maxVonMisesStress,
     influenceDepth |-> settlementRaw(layers, foundation).influenceDepth]

ServiceOps == {"runFullAnalysis", "toFixed2", "remedialSolutions", "safeSolutions", "generateFallbackReport", "analyzeSoilProfile", "mergeNarration", "setAiGenerating", "pressureCall"}

CallService(op, a) ==
    CASE op = "runFullAnalysis" -> runFullAnalysisImpl(a[1], a[2])
      [] op = "toFixed2" -> toFixed2Impl(a[1])
      [] op = "remedialSolutions" -> remedialSolutionsImpl(a[1])
      [] op = "safeSolutions" -> safeSolutionsImpl(a[1])
      [] op = "generateFallbackReport" -> generateFallbackReportImpl(a[1], a[2], a[3])
      [] op = "analyzeSoilProfile" -> analyzeSoilProfileImpl(a[1], a[2], a[3], a[4], a[5])
      [] op = "mergeNarration" -> mergeNarrationImpl(a[1], a[2])
      [] op = "setAiGenerating" -> setAiGeneratingImpl(a[1], a[2])
      [] op = "pressureCall" -> pressureCallImpl(a[1], a[2])

Call(op, a) ==
    IF op \in FloatOps THEN CallFloat(op, a)
    ELSE IF op \in MathOps THEN CallMath(op, a)
    ELSE IF op \in SoilOps THEN CallSoil(op, a)
    ELSE IF op \in BearingOps THEN CallBearing(op, a)
    ELSE IF op \in SettlementOps THEN CallSettlement(op, a)
    ELSE IF op \in DesignOps THEN CallDesign(op, a)
    ELSE IF op \in MeshOps THEN CallMesh(op, a)
    ELSE IF op \in GraphsOps THEN CallGraphs(op, a)
    ELSE CallService(op, a)

(* ------------------------------------------------------------------ *)
(* App: state and handlers                                             *)
(* ------------------------------------------------------------------ *)

\* The number of analyses, of narration requests in flight and of edits of the
\* input forms a behaviour may hold.
MaxClock == 2

MaxPending == 1

MaxEdits == 2

VARIABLES
    curLayers,     \* useState layers: the soil profile
    curFoundation, \* useState foundation: the foundation form
    curLang,       \* useState lang: the language
    result,        \* useState: the displayed result, or null
    history,       \* useState: the history items, newest first
    pending,       \* the handleEnhanceReport calls awaiting enhanceReportWithAI,
                   \* each with the result, layers, foundation and lang it closed over
    clock,         \* the value Date.now() returns next
    edits,         \* the edits of the input forms so far
    lastOp,        \* the handler that ran last, and what it alerted
    out,           \* the value the function under study returned, or null
    earlier        \* the arguments and the value of the call before, or null

vars == <<curLayers, curFoundation, curLang, result, history, pending, clock, edits, lastOp, out, earlier>>

appVars == <<curLayers, curFoundation, curLang, result, history, pending, clock, edits, lastOp>>

Op(name, note) == [op |-> name, note |-> note]

Init ==
    /\ curLayers = defaultLayers
    /\ curFoundation = defaultFoundation
    /\ curLang = "ar"
    /\ result = null
    /\ history = <<>>
    /\ pending = <<>>
    /\ clock = 0
    /\ edits = 0
    /\ lastOp = Op("init", "")
    /\ out = null
    /\ earlier = null

\* handleAnalysis with the profile put in depth order in place before the
\* analysis (layers.sort(...)) and the foundation's empty target factor of
\* safety filled in.
handleAnalysisNormalising ==
    /\ clock < MaxClock
    /\ curLayers' = SelectSeq(curLayers, LAMBDA l : l.id = "2")
                        \o SelectSeq(curLayers, LAMBDA l : l.id # "2")
    /\ curFoundation' = [curFoundation EXCEPT !.targetFos = OrElse(@, FromInt(3))]
    /\ result' = analyzeSoilProfile(curLayers', curFoundation', <<>>, curLang, clock)
    /\ ~Threw(result')
    /\ history' = <<[id |-> clock, date |-> clock, foundationType |-> curFoundation.type,
                     load |-> curFoundation.load, result |-> result']>> \o history
    /\ clock' = clock + 1
    /\ lastOp' = Op("handleAnalysis", "")
    /\ UNCHANGED <<curLang, pending, edits, out, earlier>>

\* try { data = analyzeSoilProfile(...); setResult(data); setHistory([item, ...history]) }
\* catch { alert('Analysis Error') }
handleAnalysis ==
    /\ clock < MaxClock
    /\ LET data == analyzeSoilProfile(curLayers, curFoundation, <<>>, curLang, clock)
           historyItem == [id |-> clock, date |-> clock,
                           foundationType |-> curFoundation.type,
                           load |-> curFoundation.load, result |-> data]
       IN  IF Threw(data)
           THEN /\ lastOp' = Op("handleAnalysis", "Analysis Error")
                /\ UNCHANGED <<result, history, clock>>
           ELSE /\ result' = data
                /\ history' = <<historyItem>> \o history
                /\ clock' = clock + 1
                /\ lastOp' = Op("handleAnalysis", "")
    /\ UNCHANGED <<curLayers, curFoundation, curLang, pending, edits, out, earlier>>

\* if (!result) return; setResult(prev => ({ ...prev, isAiGenerating: true }));
\* then the call of enhanceReportWithAI(result, layers, foundation, lang) is awaited.
handleEnhanceReport ==
    /\ Len(pending) < MaxPending
    /\ IF result = null
       THEN /\ lastOp' = Op("handleEnhanceReport", "no result")
            /\ UNCHANGED <<result, pending>>
       ELSE /\ result' = setAiGenerating(result, TRUE)
            /\ pending' = Append(pending, [result |-> result, layers |-> curLayers,
                                           foundation |-> curFoundation, lang |-> curLang])
            /\ lastOp' = Op("handleEnhanceReport", "")
    /\ UNCHANGED <<curLayers, curFoundation, curLang, history, clock, edits, out, earlier>>

Without(s, i) == SubSeq(s, 1, i - 1) \o SubSeq(s, i + 1, Len(s))

\* The awaited call of request i returns aiData: the success path.
enhanceSucceeds(i, aiData) ==
    /\ i \in 1..Len(pending)
    /\ ~Threw(runFullAnalysis(pending[i].layers, pending[i].foundation))
    /\ result' = mergeNarration(result, aiData)
    /\ pending' = Without(pending, i)
    /\ lastOp' = Op("enhanceSucceeds", "")
    /\ UNCHANGED <<curLayers, curFoundation, curLang, history, clock, edits, out, earlier>>

\* The catch block restoring the result its closure captured when the
\* narration was requested: setResult({ ...result, isAiGenerating: false }).
enhanceFailsStale(i, reason) ==
    /\ i \in 1..Len(pending)
    /\ Threw(runFullAnalysis(pending[i].layers, pending[i].foundation))
           <=> reason = "TypeError"
    /\ result' = setAiGenerating(pending[i].result, FALSE)
    /\ pending' = Without(pending, i)
    /\ lastOp' = Op("enhanceFails", "")
    /\ UNCHANGED <<curLayers, curFoundation, curLang, history, clock, edits, out, earlier>>

\* The awaited call of request i throws: the catch block.
enhanceFails(i, reason) ==
    /\ i \in 1..Len(pending)
    /\ Threw(runFullAnalysis(pending[i].layers, pending[i].foundation))
           <=> reason = "TypeError"
    /\ lastOp' = Op("enhanceFails",
                    IF pending[i].lang = "ar" THEN "ar: AI Connection Failed"
                    ELSE "AI Connection Failed")
    /\ result' = setAiGenerating(result, FALSE)
    /\ pending' = Without(pending, i)
    /\ UNCHANGED <<curLayers, curFoundation, curLang, history, clock, edits, out, earlier>>

loadFromHistory(i) ==
    /\ i \in 1..Len(history)
    /\ result' = history[i].result
    /\ lastOp' = Op("loadFromHistory", "")
    /\ UNCHANGED <<curLayers, curFoundation, curLang, history, pending, clock, edits, out, earlier>>

\* setLayers(layers.filter(l => l.id !== id))
removeLayer(id) ==
    /\ edits < MaxEdits
    /\ curLayers' = SelectSeq(curLayers, LAMBDA l : l.id # id)
    /\ edits' = edits + 1
    /\ lastOp' = Op("removeLayer", id)
    /\ UNCHANGED <<curFoundation, curLang, result, history, pending, clock, out, earlier>>

\* The foundation form's onChange handlers, as one replacement of the record.
setFoundation(f) ==
    /\ edits < MaxEdits
    /\ f # curFoundation
    /\ curFoundation' = f
    /\ edits' = edits + 1
    /\ lastOp' = Op("setFoundation", "")
    /\ UNCHANGED <<curLayers, curLang, result, history, pending, clock, out, earlier>>

setLang(l) ==
    /\ edits < MaxEdits
    /\ l # curLang
    /\ curLang' = l
    /\ edits' = edits + 1
    /\ lastOp' = Op("setLang", l)
    /\ UNCHANGED <<curLayers, curFoundation, result, history, pending, clock, out, earlier>>

Next ==
    \/ handleAnalysis
    \/ handleEnhanceReport
    \/ \E i \in 1..MaxPending : \E aiData \in AiResponses : enhanceSucceeds(i, aiData)
    \/ \E i \in 1..MaxPending : \E reason \in FailureReasons : enhanceFails(i, reason)
    \/ \E i \in 1..MaxClock : loadFromHistory(i)
    \/ \E id \in {"1", "2"} : removeLayer(id)
    \/ \E f \in AppFoundations : setFoundation(f)
    \/ \E l \in Languages : setLang(l)

Spec == Init /\ [][Next]_vars

\* The fields of a displayed result that the narration may replace.
narrativeKeys == {"doctorReport", "recommendations", "foundationDesign", "isAiGenerating"}

\* Two displayed results agree in every field but doctorReport,
\* recommendations, foundationDesign.notes and isAiGenerating.
sameNumbers(a, b) ==
    /\ DOMAIN a = DOMAIN b
    /\ \A k \in DOMAIN a \ narrativeKeys : a[k] = b[k]
    /\ DOMAIN a.foundationDesign = DOMAIN b.foundationDesign
    /\ \A k \in DOMAIN a.foundationDesign \ {"notes"} :
           a.foundationDesign[k] = b.foundationDesign[k]

\* C2: the step that merges a narration into the displayed result leaves every
\* numeric field of the result unchanged; only doctorReport, recommendations,
\* foundationDesign.notes and isAiGenerating may differ.
C2_MergeKeepsNumbers ==
    [][lastOp'.op = "enhanceSucceeds" => sameNumbers(result, result')]_vars

\* A narration was merged and replaced the report.
C2_Witness ==
    /\ lastOp.op = "enhanceSucceeds"
    /\ result.doctorReport = aiExtraKeys.doctorReport
    /\ result.recommendations # history[1].result.recommendations

\* A result carries a complete narrative.
narrativeComplete(r) ==
    /\ r.doctorReport # undefined
    /\ r.recommendations.solutions # undefined
    /\ r.recommendations.riskLevel \in {"Low", "Medium", "High"}
    /\ r.foundationDesign.notes # undefined

\* C3 (as the code has it): the result of handleAnalysis carries a complete
\* narrative and no narration request was made for it; the step that handles a
\* failed narration changes, in the result displayed at that moment, nothing
\* but isAiGenerating, which it resets to false.
C3_FallbackAndFailure ==
    [][/\ (lastOp'.op = "handleAnalysis" /\ lastOp'.note = "")
              => (narrativeComplete(result') /\ pending' = pending)
       /\ lastOp'.op = "enhanceFails"
              => result' = [result EXCEPT !.isAiGenerating = FALSE]]_vars

\* A failed narration was handled.
C3_Witness ==
    /\ lastOp.op = "enhanceFails"
    /\ result # null
    /\ result.isAiGenerating = FALSE
    /\ narrativeComplete(result)

\* C3 (as claimed): when a narration fails, the displayed result has exactly
\* the fields it had when that narration was requested, with isAiGenerating
\* false.
C3_KeepsResultAtRequest ==
    [][lastOp'.op = "enhanceFails"
          => \E i \in 1..Len(pending) :
                 /\ pending' = Without(pending, i)
                 /\ result' = [pending[i].result EXCEPT !.isAiGenerating = FALSE]]_vars

\* C26: a narration is merged only into the result it was requested for: after
\* the step that merges the narration of a request, the displayed result has
\* the numbers of the result displayed when that request was made, whatever
\* analyses, loads from the history and requests came in between.
C26_NarrationForItsResult ==
    [][lastOp'.op = "enhanceSucceeds"
          => \E i \in 1..Len(pending) :
                 /\ pending' = Without(pending, i)
                 /\ result'.bearingCapacity = pending[i].result.bearingCapacity
                 /\ result'.settlement = pending[i].result.settlement
                 /\ result'.femAnalysis = pending[i].result.femAnalysis]_vars

\* C30: the result of an analysis lists 'Foundation is safe, no special
\* measures' only if punchingShearCheck is 'Safe', the bearing factor of
\* safety is >= 3 and the settlement status is not 'Failure'; with a risk
\* level of 'High' or 'Medium' it lists the remedial measures.
C30_SafeListOnlyWhenChecksPass ==
    (lastOp = Op("handleAnalysis", "") /\ result # null) =>
        /\ result.recommendations.solutions = safeSolutions(curLang) =>
              /\ result.foundationDesign.punchingShearCheck = "Safe"
              /\ FGe(result.bearingCapacity.factorOfSafety, FromInt(3))
              /\ result.settlement.status # "Failure"
        /\ result.recommendations.riskLevel \in {"High", "Medium"} =>
              result.recommendations.solutions = remedialSolutions(curLang)

layer(id, type, depthFrom, depthTo, sptN, labData) ==
    [id |-> id, depthFrom |-> depthFrom, depthTo |-> depthTo, type |-> type,
     sptN |-> sptN, labData |-> labData]

\* Lab data with the measured values switched off, and measured values of a
\* clay whose friction angle is 0.
estimatedLab == defaultLabData

measuredClayLab ==
    [defaultLabData EXCEPT !.useManual = TRUE, !.unitWeight = FromInt(17),
                           !.frictionAngle = Zero, !.cohesion = FromInt(40),
                           !.elasticModulus = FromInt(12), !.cc = Num(3, -1),
                           !.cv = Num(8, -1)]

\* Measured values with some fields left empty in the form.
partialLab ==
    [defaultLabData EXCEPT !.useManual = TRUE, !.unitWeight = undefined,
                           !.frictionAngle = FromInt(34), !.cohesion = undefined,
                           !.elasticModulus = undefined, !.poissonsRatio = undefined,
                           !.cAlpha = undefined]

softClayOverSand ==
    <<layer("1", "Clay", Zero, FromInt(4), FromInt(3), estimatedLab),
      layer("2", "Sand", FromInt(4), FromInt(20), FromInt(30), estimatedLab)>>

stiffClay == <<layer("1", "Clay", Zero, FromInt(12), FromInt(12), measuredClayLab)>>

siltOverGravel ==
    <<layer("1", "Silt", Zero, FromInt(6), FromInt(9), partialLab),
      layer("2", "Gravel", FromInt(6), FromInt(18), FromInt(40), estimatedLab)>>

looseSandOverClay ==
    <<layer("1", "Sand", Zero, FromInt(3), FromInt(6), partialLab),
      layer("2", "Clay", FromInt(3), FromInt(9), FromInt(5), estimatedLab),
      layer("3", "Rock", FromInt(9), FromInt(30), FromInt(60), estimatedLab)>>

EngineProfiles ==
    {defaultLayers, <<defaultSand>>, softClayOverSand, stiffClay, siltOverGravel,
     looseSandOverClay}

\* The foundation form: a shape with its plan dimensions, a column load, a
\* target factor of safety (empty, or typed) and a concrete grade.
FootingShapes ==
    {[type |-> "raft", width |-> FromInt(10), length |-> FromInt(10), diameter |-> undefined],
     [type |-> "isolated", width |-> Two, length |-> FromInt(3), diameter |-> undefined],
     [type |-> "strip", width |-> Num(15, -1), length |-> FromInt(10), diameter |-> undefined],
     [type |-> "circular", width |-> FromInt(10), length |-> FromInt(10), diameter |-> FromInt(3)]}

Loads == {FromInt(800), FromInt(16000)}

TargetFosValues == {undefined, Zero, Num(25, -1), FromInt(3)}

footing(shape, load, targetFos) ==
    [defaultFoundation EXCEPT !.type = shape.type, !.width = shape.width,
                              !.length = shape.length, !.diameter = shape.diameter,
                              !.load = load, !.targetFos = targetFos]

EngineFoundations ==
    {footing(s, l, t) : s \in FootingShapes, l \in Loads, t \in {undefined, FromInt(3)}}

\* The variables of the App that a call of one function of the engine leaves
\* at their initial values.
idle ==
    /\ curLang = "en"
    /\ result = null
    /\ history = <<>>
    /\ pending = <<>>
    /\ clock = 0
    /\ edits = 0
    /\ lastOp = Op("init", "")
    /\ out = null
    /\ earlier = null

(* ------------------------------------------------------------------ *)
(* calculateBearingCapacity, called on the engine inputs               *)
(* ------------------------------------------------------------------ *)

bearingCall(layers, foundation) ==
    [raw |-> bearingCapacityRaw(layers, foundation),
     value |-> calculateBearingCapacity(layers, foundation)]

InitBearing ==
    /\ curLayers \in EngineProfiles
    /\ curFoundation \in EngineFoundations
    /\ idle

callBearingCapacity ==
    /\ lastOp.op = "init"
    /\ out' = bearingCall(curLayers, curFoundation)
    /\ lastOp' = Op("calculateBearingCapacity", "")
    /\ UNCHANGED <<curLayers, curFoundation, curLang, result, history, pending, clock,
                   edits, earlier>>

\* A second run whose input differs from the first one's only in targetFos.
recallWithTargetFos(t) ==
    /\ lastOp.op = "calculateBearingCapacity"
    /\ t # curFoundation.targetFos
    /\ earlier' = [foundation |-> curFoundation, out |-> out]
    /\ curFoundation' = [curFoundation EXCEPT !.targetFos = t]
    /\ out' = bearingCall(curLayers, curFoundation')
    /\ lastOp' = Op("recallWithTargetFos", "")
    /\ UNCHANGED <<curLayers, curLang, result, history, pending, clock, edits>>

NextBearing ==
    \/ callBearingCapacity
    \/ \E t \in TargetFosValues : recallWithTargetFos(t)

SpecBearing == InitBearing /\ [][NextBearing]_vars

\* C6: whenever the friction angle resolved for the foundation layer is 0, the
\* reported bearing factors are exactly Nc = 5.14, Nq = 1.0 and Ngamma = 0.
C6_UndrainedFactors ==
    (out # null /\ out.raw.phi = Zero)
        => out.value.factors = [Nc |-> Num(514, -2), Nq |-> One, Ngamma |-> Zero]

\* A clay at foundation level whose friction angle is estimated (0), and one
\* whose measured friction angle is 0, at two different blow counts.
C6_Witness ==
    /\ out # null
    /\ out.raw.phi = Zero
    /\ curLayers \in {softClayOverSand, stiffClay}

\* The target factor of safety a run divides by: 3.0 when the field is unset.
targetFosOf(foundation) ==
    IF foundation.targetFos \in {undefined, Zero} THEN FromInt(3) ELSE foundation.targetFos

\* C7: reported q_allow equals reported q_ult / targetFOS up to the two-decimal
\* rounding of both (targetFOS 3.0 when unset), and two runs that differ only
\* in targetFOS report the same q_ult, bearing factors and factorOfSafety.
C7_AllowableCapacity ==
    /\ out # null =>
          FLe(FSub(FMax(out.value.q_allow,
                        FDiv(out.value.q_ult, targetFosOf(curFoundation))),
                   FMin(out.value.q_allow,
                        FDiv(out.value.q_ult, targetFosOf(curFoundation)))),
              Num(1, -2))
    /\ earlier # null =>
          /\ out.value.q_ult = earlier.out.value.q_ult
          /\ out.value.factors = earlier.out.value.factors
          /\ out.value.factorOfSafety = earlier.out.value.factorOfSafety

\* A second run with another target factor of safety, which changed q_allow.
C7_Witness ==
    /\ earlier # null
    /\ targetFosOf(curFoundation) # targetFosOf(earlier.foundation)
    /\ out.value.q_allow # earlier.out.value.q_allow

(* ------------------------------------------------------------------ *)
(* runFullAnalysis, called on well-formed and malformed inputs         *)
(* ------------------------------------------------------------------ *)

\* Profiles the layer form accepts although their depths overlap, leave a
\* gap, or give a layer no thickness.  (A clay or silt layer without
\* thickness makes generateGraphs divide 0 by 0: its curve holds NaN, which
\* the decimal numbers here do not represent.)
overlappingProfile ==
    <<layer("1", "Sand", Zero, FromInt(10), FromInt(20), estimatedLab),
      layer("2", "Clay", FromInt(8), FromInt(15), FromInt(8), estimatedLab)>>

gappedProfile ==
    <<layer("1", "Sand", Zero, FromInt(5), FromInt(20), estimatedLab),
      layer("2", "Clay", FromInt(7), FromInt(12), FromInt(8), estimatedLab)>>

zeroLengthProfile ==
    <<layer("1", "Sand", Zero, FromInt(5), FromInt(20), estimatedLab),
      layer("2", "Gravel", FromInt(5), FromInt(5), FromInt(10), estimatedLab),
      layer("3", "Clay", FromInt(5), FromInt(12), FromInt(8), estimatedLab)>>

AnalysisProfiles ==
    {defaultLayers, overlappingProfile, gappedProfile, zeroLengthProfile, <<>>}

\* Foundation depths: inside the profile, and below the bottom of every
\* profile above.
FoundationDepths == {FromInt(2), FromInt(25)}

AnalysisFoundations ==
    {[footing(s, l, undefined) EXCEPT !.depth = d] :
        s \in {f \in FootingShapes : f.type # "strip"}, l \in Loads, d \in FoundationDepths}

InitAnalysis ==
    /\ curLayers \in AnalysisProfiles
    /\ curFoundation \in AnalysisFoundations
    /\ idle

callRunFullAnalysis ==
    /\ lastOp.op = "init"
    /\ out' = runFullAnalysis(curLayers, curFoundation)
    /\ lastOp' = Op("runFullAnalysis", "")
    /\ UNCHANGED <<curLayers, curFoundation, curLang, result, history, pending, clock,
                   edits, earlier>>

NextAnalysis == callRunFullAnalysis

SpecAnalysis == InitAnalysis /\ [][NextAnalysis]_vars

\* The layer depths of a profile overlap or leave a gap.
nonContiguous(layers) ==
    \E i \in 1..(Len(layers) - 1) : layers[i + 1].depthFrom # layers[i].depthTo

zeroLengthLayer(layers) ==
    \E i \in 1..Len(layers) : layers[i].depthTo = layers[i].depthFrom

depthExceedsProfile(layers, foundation) ==
    Len(layers) > 0 /\ FGt(foundation.depth, layers[Len(layers)].depthTo)

\* C4: for a profile with non-contiguous or overlapping depths or a
\* zero-length layer, or a foundation depth exceeding the profile depth, the
\* engine reports an error and produces no CalculationOutput.
C4_MalformedInputRejected ==
    (/\ lastOp.op = "runFullAnalysis"
     /\ \/ nonContiguous(curLayers)
        \/ zeroLengthLayer(curLayers)
        \/ depthExceedsProfile(curLayers, curFoundation))
        => Threw(out)

(* ------------------------------------------------------------------ *)
(* calculateSettlement, called on the engine inputs                    *)
(* ------------------------------------------------------------------ *)

SettlementLoads == {FromInt(800), FromInt(5000), FromInt(16000), FromInt(40000)}

SettlementFoundations ==
    {footing(s, l, undefined) : s \in FootingShapes, l \in SettlementLoads}

settlementCall(layers, foundation) ==
    [raw |-> settlementRaw(layers, foundation),
     value |-> calculateSettlement(layers, foundation),
     design |-> calculateFoundationDesign(foundation, Zero)]

InitSettlement ==
    /\ curLayers \in EngineProfiles
    /\ curFoundation \in SettlementFoundations
    /\ idle

callSettlement ==
    /\ lastOp.op = "init"
    /\ out' = settlementCall(curLayers, curFoundation)
    /\ lastOp' = Op("calculateSettlement", "")
    /\ UNCHANGED <<curLayers, curFoundation, curLang, result, history, pending, clock,
                   edits, earlier>>

\* A second run on the same profile under a larger load.
recallWithLoad(l) ==
    /\ lastOp.op = "calculateSettlement"
    /\ FGt(l, curFoundation.load)
    /\ earlier' = [foundation |-> curFoundation, out |-> out]
    /\ curFoundation' = [curFoundation EXCEPT !.load = l]
    /\ out' = settlementCall(curLayers, curFoundation')
    /\ lastOp' = Op("recallWithLoad", "")
    /\ UNCHANGED <<curLayers, curLang, result, history, pending, clock, edits>>

NextSettlement ==
    \/ callSettlement
    \/ \E l \in SettlementLoads : recallWithLoad(l)

SpecSettlement == InitSettlement /\ [][NextSettlement]_vars

severity(status) ==
    CASE status = "Safe" -> 0 [] status = "Warning" -> 1 [] status = "Failure" -> 2

\* C8: the status is 'Safe' when the total elastic + primary + secondary is
\* below 25 mm, 'Warning' from 25 mm and below 50 mm, and 'Failure' from 50 mm;
\* of two runs, the one with the larger total never has the less severe status.
C8_StatusThresholds ==
    /\ out # null =>
          LET total == FAdd(FAdd(out.raw.elastic, out.raw.primary), out.raw.secondary)
          IN  /\ FLt(total, FromInt(25)) => out.value.status = "Safe"
              /\ (FGe(total, FromInt(25)) /\ FLt(total, FromInt(50)))
                     => out.value.status = "Warning"
              /\ FGe(total, FromInt(50)) => out.value.status = "Failure"
              /\ out.value.total = Round2(total)
    /\ earlier # null =>
          (FLe(earlier.out.raw.total, out.raw.total)
              => severity(earlier.out.value.status) <= severity(out.value.status))

\* Two runs, one in each of two different status bands, the third band being
\* reached by the run before.
C8_Witness ==
    /\ earlier # null
    /\ earlier.out.value.status = "Warning"
    /\ out.value.status = "Failure"
    /\ FGt(earlier.out.raw.total, FromInt(25))

(* ------------------------------------------------------------------ *)
(* calculateFoundationDesign, called on footings of several grades     *)
(* ------------------------------------------------------------------ *)

ConcreteGrades == {FromInt(21), FromInt(28), FromInt(40)}

SteelGrades == {FromInt(280), FromInt(420)}

\* The allowable pressure handed over by runFullAnalysis; the design reads
\* none of it.
QAllowValues == {Zero, FromInt(150)}

DesignFoundations ==
    {[footing(s, l, undefined) EXCEPT !.concreteGrade = fc, !.steelGrade = fy] :
        s \in FootingShapes, l \in SettlementLoads, fc \in ConcreteGrades, fy \in SteelGrades}

designCall(foundation, qAllow) ==
    [raw |-> foundationDesignRaw(foundation),
     value |-> calculateFoundationDesign(foundation, qAllow)]

InitDesign ==
    /\ curLayers = defaultLayers
    /\ curFoundation \in DesignFoundations
    /\ idle

callFoundationDesign ==
    /\ lastOp.op = "init"
    /\ \E qAllow \in QAllowValues : out' = designCall(curFoundation, qAllow)
    /\ lastOp' = Op("calculateFoundationDesign", "")
    /\ UNCHANGED <<curLayers, curFoundation, curLang, result, history, pending, clock,
                   edits, earlier>>

\* A second design of the same footing in a higher concrete grade.
recallWithConcreteGrade(fc) ==
    /\ lastOp.op = "calculateFoundationDesign"
    /\ FGt(fc, curFoundation.concreteGrade)
    /\ earlier' = [foundation |-> curFoundation, out |-> out]
    /\ curFoundation' = [curFoundation EXCEPT !.concreteGrade = fc]
    /\ \E qAllow \in QAllowValues : out' = designCall(curFoundation', qAllow)
    /\ lastOp' = Op("recallWithConcreteGrade", "")
    /\ UNCHANGED <<curLayers, curLang, result, history, pending, clock, edits>>

NextDesign ==
    \/ callFoundationDesign
    \/ \E fc \in ConcreteGrades : recallWithConcreteGrade(fc)

SpecDesign == InitDesign /\ [][NextDesign]_vars

designed == lastOp.op \in {"calculateFoundationDesign", "recallWithConcreteGrade"}

\* 0.75*0.33*sqrt(fc)*4*(columnSize+d)*d*1000 >= load - appliedPressure*(columnSize+d)^2
capacityMeetsDemand(foundation, columnSize, appliedPressure, d) ==
    LET capacity == FMul(FMul(FMul(FMul(FMul(FMul(Num(75, -2), Num(33, -2)),
                                             FSqrt(foundation.concreteGrade)),
                                        FromInt(4)),
                                   FAdd(columnSize, d)), d), FromInt(1000))
        demand == FSub(foundation.load,
                       FMul(appliedPressure, FMul(FAdd(columnSize, d), FAdd(columnSize, d))))
    IN  FGe(capacity, demand)

\* The depth the solver ended with: minThickness less the 0.1 m of cover.
solvedDepth == FSub(out.value.minThickness, Num(1, -1))

\* C9: punchingShearCheck is 'Safe' exactly when the factored capacity at the
\* depth the solver ended with is at least the demand, 'Unsafe' otherwise, and
\* 'Unsafe' only when the solver stopped at its cap of 1.3 m.
C9_PunchingCheck ==
    designed =>
        /\ out.value.punchingShearCheck \in {"Safe", "Unsafe"}
        /\ out.value.punchingShearCheck = "Safe"
              <=> capacityMeetsDemand(curFoundation, out.raw.columnSize, out.raw.qApplied,
                                      solvedDepth)
        /\ out.value.punchingShearCheck = "Unsafe" => solvedDepth = Num(13, -1)

\* Both outcomes: a design found 'Unsafe' at the cap, and the same footing in
\* a higher grade found 'Safe' below it.
C9_Witness ==
    /\ earlier # null
    /\ lastOp.op = "recallWithConcreteGrade"
    /\ earlier.out.value.punchingShearCheck = "Unsafe"
    /\ out.value.punchingShearCheck = "Safe"
    /\ FLt(solvedDepth, Num(13, -1))

\* C10: of two foundations that differ in concrete grade only, the one of
\* the higher grade needs no more thickness than the other.
C10_GradeNeverThickens ==
    (lastOp.op = "recallWithConcreteGrade" /\ earlier # null) =>
        /\ FLe(earlier.foundation.concreteGrade, curFoundation.concreteGrade)
        /\ [earlier.foundation EXCEPT !.concreteGrade = curFoundation.concreteGrade]
               = curFoundation
        /\ FLe(out.value.minThickness, earlier.out.value.minThickness)

\* A higher grade that makes the footing strictly thinner.
C10_Witness ==
    /\ lastOp.op = "recallWithConcreteGrade"
    /\ earlier # null
    /\ FLt(out.value.minThickness, earlier.out.value.minThickness)

\* 0.3 + 0.05 k
testedDepth(k) == FAdd(Num(3, -1), FMul(Num(5, -2), FromInt(k)))

\* C17: the solver ends after at most 20 increments of 0.05 m from 0.3 m, at
\* the smallest tested depth where demand <= capacity or, when none of the
\* tested depths satisfies it, at the cap of 1.3 m; minThickness lies in
\* [0.4, 1.4] m.
C17_DepthSolver ==
    designed =>
        /\ \E k \in 0..MaxIter :
              /\ out.raw.d = testedDepth(k)
              /\ \A j \in 0..(k - 1) :
                    ~capacityMeetsDemand(curFoundation, out.raw.columnSize,
                                         out.raw.qApplied, testedDepth(j))
              /\ k < MaxIter => capacityMeetsDemand(curFoundation, out.raw.columnSize,
                                                    out.raw.qApplied, out.raw.d)
        /\ FGe(out.value.minThickness, Num(4, -1))
        /\ FLe(out.value.minThickness, Num(14, -1))

\* A solver run that ended strictly between its first guess and the cap.
C17_Witness ==
    /\ designed
    /\ FGt(out.raw.d, Num(3, -1))
    /\ FLt(out.raw.d, Num(13, -1))
    /\ out.value.punchingShearCheck = "Safe"

\* C19: reinforcementArea is the larger of the flexural requirement and the
\* minimum amount (rounded to a whole mm2), and never below
\* 0.0018 x 1000 mm x minThickness in mm.
C19_MinimumReinforcement ==
    designed =>
        LET minimum == FMul(FMul(Num(18, -4), FromInt(1000)),
                            FMul(out.value.minThickness, FromInt(1000)))
        IN  /\ out.value.reinforcementArea
                  = FromInt(FRound(IF FGt(out.raw.As, minimum) THEN out.raw.As ELSE minimum))
            /\ FGe(out.value.reinforcementArea, minimum)

\* A design governed by the minimum amount: the flexural requirement is the
\* smaller of the two.
C19_Witness ==
    /\ designed
    /\ FLt(out.raw.As, out.raw.AsMin)
    /\ out.value.reinforcementArea = FromInt(FRound(out.raw.AsMin))

(* ------------------------------------------------------------------ *)
(* calculateSlopeStability, called on level and sloping ground         *)
(* ------------------------------------------------------------------ *)

SlopeAngles ==
    {undefined, Zero, FromInt(-5), FromInt(10), FromInt(25), FromInt(35), FromInt(45)}

SlopeDepths == {Zero, FromInt(2), FromInt(4)}

SlopeFoundations ==
    {[defaultFoundation EXCEPT !.slopeAngle = a, !.depth = z] :
        a \in SlopeAngles, z \in SlopeDepths}

slopeCall(layers, foundation) ==
    LET value == calculateSlopeStability(layers, foundation)
    IN  [value |-> value,
         fos |-> IF value = undefined THEN undefined ELSE slopeFos(layers, foundation)]

InitSlope ==
    /\ curLayers \in EngineProfiles
    /\ curFoundation \in SlopeFoundations
    /\ idle

callSlopeStability ==
    /\ lastOp.op = "init"
    /\ out' = slopeCall(curLayers, curFoundation)
    /\ lastOp' = Op("calculateSlopeStability", "")
    /\ UNCHANGED <<curLayers, curFoundation, curLang, result, history, pending, clock,
                   edits, earlier>>

NextSlope == callSlopeStability

SpecSlope == InitSlope /\ [][NextSlope]_vars

\* C11: the slope block is undefined when slopeAngle is zero or unset; for a
\* slopeAngle above zero it is present, 'Unstable' when the factor of safety
\* of the infinite slope is below 1.5 and 'Stable' when it is 1.5 or more.
C11_SlopeBlock ==
    lastOp.op = "calculateSlopeStability" =>
        /\ curFoundation.slopeAngle \in {undefined, Zero} => out.value = undefined
        /\ (curFoundation.slopeAngle # undefined /\ FGt(curFoundation.slopeAngle, Zero)) =>
              /\ out.value # undefined
              /\ FLt(out.fos, Num(15, -1)) => out.value.status = "Unstable"
              /\ FGe(out.fos, Num(15, -1)) => out.value.status = "Stable"
              /\ out.value.factorOfSafety = Round2(out.fos)

\* A slope found 'Unstable' although its factor of safety is above 1.
C11_Witness ==
    /\ lastOp.op = "calculateSlopeStability"
    /\ out.value # undefined
    /\ out.value.status = "Unstable"
    /\ FGt(out.fos, One)

(* ------------------------------------------------------------------ *)
(* calculateFEMAnalysis and the stress under the centre of the footing *)
(* ------------------------------------------------------------------ *)

\* Depths under the centre, in metres: the surface and below it.
CenterlineDepths ==
    <<Zero, Num(1, -1), Half, One, Two, FromInt(4), FromInt(7), FromInt(12), FromInt(20),
      FromInt(30)>>

\* boussinesqRectangular at offset 0 for the footing's pressure, depth by depth.
centerlineStress(foundation) ==
    LET B == footingB(foundation)
        L == footingL(foundation)
        qApplied == FDiv(foundation.load, planArea(foundation.type, B, L))
    IN  [k \in 1..Len(CenterlineDepths) |->
            boussinesqRectangular(qApplied, B, L, Zero, CenterlineDepths[k])]

femCall(layers, foundation) ==
    [value |-> calculateFEMAnalysis(layers, foundation),
     centerline |-> centerlineStress(foundation)]

InitMesh ==
    /\ curLayers \in EngineProfiles
    /\ curFoundation \in SettlementFoundations
    /\ idle

callFEMAnalysis ==
    /\ lastOp.op = "init"
    /\ out' = femCall(curLayers, curFoundation)
    /\ lastOp' = Op("calculateFEMAnalysis", "")
    /\ UNCHANGED <<curLayers, curFoundation, curLang, result, history, pending, clock,
                   edits, earlier>>

NextMesh == callFEMAnalysis

SpecMesh == InitMesh /\ [][NextMesh]_vars

\* C12: every node of the stress mesh has a stress >= 0, and under the centre
\* (offset 0) the stress at a depth z1 is at least the stress at any depth
\* z2 > z1.
C12_StressField ==
    lastOp.op = "calculateFEMAnalysis" =>
        /\ \A k \in 1..Len(out.value.stressMesh) : FGe(out.value.stressMesh[k].stress, Zero)
        /\ \A i, j \in 1..Len(out.centerline) :
              (i < j /\ FLt(CenterlineDepths[i], CenterlineDepths[j]))
                  => FGe(out.centerline[i], out.centerline[j])


\* A mesh of nX * nZ nodes with a positive stress in it, over a centre line
\* whose stress falls strictly from the surface to the deepest point.
C12_Witness ==
    /\ lastOp.op = "calculateFEMAnalysis"
    /\ Len(out.value.stressMesh) = nX * nZ
    /\ \E k \in 1..Len(out.value.stressMesh) : FGt(out.value.stressMesh[k].stress, Zero)
    /\ FGt(out.centerline[1], out.centerline[Len(out.centerline)])

\* The node of row iz and column ix, both counted from 0.
meshNode(iz, ix) == out.value.stressMesh[iz * 12 + ix + 1]

\* C25 as stated: 8 rows of 12 nodes, the offsets from -1.5 x width to
\* +1.5 x width, the first row at depth 0 and the last one at 3 x width.
C25_MeshSpan ==
    lastOp.op = "calculateFEMAnalysis" =>
        LET width == curFoundation.width
        IN  /\ out.value.meshNodes = 96
            /\ Len(out.value.stressMesh) = 96
            /\ \A iz \in 0..7 :
                  /\ meshNode(iz, 0).x = Round2(FNeg(FMul(Num(15, -1), width)))
                  /\ meshNode(iz, 11).x = Round2(FMul(Num(15, -1), width))
            /\ \A ix \in 0..11 :
                  /\ meshNode(0, ix).z = Zero
                  /\ meshNode(7, ix).z = Round2(FMul(FromInt(3), width))

\* C25, amended: 8 rows of 12 nodes (meshNodes = 96 = the length of
\* stressMesh); with B the width, or the diameter of a circular footing, the
\* offsets of every row run from -1.5 B in the first column up to +1.5 B in
\* the last, and the depths of the rows run from 0.1 m in the first row up to
\* 3 B + 0.1 m in the last.
C25_MeshGrid ==
    lastOp.op = "calculateFEMAnalysis" =>
        LET B == IF curFoundation.type = "circular" THEN curFoundation.diameter
                 ELSE curFoundation.width
        IN  /\ out.value.meshNodes = 96
            /\ Len(out.value.stressMesh) = 96
            /\ \A iz \in 0..7 :
                  /\ meshNode(iz, 0).x = Round2(FNeg(FMul(Num(15, -1), B)))
                  /\ meshNode(iz, 11).x = Round2(FMul(Num(15, -1), B))
                  /\ \A ix \in 0..10 : FLt(meshNode(iz, ix).x, meshNode(iz, ix + 1).x)
                  /\ \A ix \in 0..11 : meshNode(iz, ix).z = meshNode(iz, 0).z
            /\ \A ix \in 0..11 :
                  /\ meshNode(0, ix).z = Num(1, -1)
                  /\ meshNode(7, ix).z = Round2(FAdd(FMul(FromInt(3), B), Num(1, -1)))
                  /\ \A iz \in 0..6 : FLt(meshNode(iz, ix).z, meshNode(iz + 1, ix).z)

\* The mesh of a circular footing whose diameter is not its width field.
C25_Witness ==
    /\ lastOp.op = "calculateFEMAnalysis"
    /\ curFoundation.type = "circular"
    /\ curFoundation.diameter # curFoundation.width
    /\ Len(out.value.stressMesh) = 96
    /\ meshNode(7, 11).x = Round2(FMul(Num(15, -1), curFoundation.diameter))
    /\ meshNode(0, 0).z = Num(1, -1)

(* ------------------------------------------------------------------ *)
(* analyzeSoilProfile, called with several calibration lists           *)
(* ------------------------------------------------------------------ *)

\* The record handleAddCalibration appends.
calibrationRecord(id, soilType, sptN, actualPhi, actualC) ==
    [id |-> id, soilType |-> soilType, sptN |-> sptN, actualPhi |-> actualPhi,
     actualC |-> actualC, actualE |-> undefined, description |-> "Calibration Point"]

sandRecord == calibrationRecord("0.1", "Sand", FromInt(12), FromInt(38), Zero)

clayRecord == calibrationRecord("0.2", "Clay", FromInt(4), FromInt(5), FromInt(60))

CalibrationLists == {<<>>, <<sandRecord>>, <<clayRecord>>, <<sandRecord, clayRecord>>}

InitCalibration ==
    /\ curLayers \in AppProfiles
    /\ curFoundation \in AppFoundations
    /\ curLang \in Languages
    /\ result = null
    /\ history = <<>>
    /\ pending = <<>>
    /\ clock = 0
    /\ edits = 0
    /\ lastOp = Op("init", "")
    /\ out = null
    /\ earlier = null

\* One call at the time clock; the call before it is kept in earlier.
callAnalyzeSoilProfile(calibrationData) ==
    /\ clock < MaxClock
    /\ earlier' = out
    /\ out' = [calibrationData |-> calibrationData,
               value |-> analyzeSoilProfile(curLayers, curFoundation, calibrationData,
                                            curLang, clock)]
    /\ clock' = clock + 1
    /\ lastOp' = Op("analyzeSoilProfile", "")
    /\ UNCHANGED <<curLayers, curFoundation, curLang, result, history, pending, edits>>

NextCalibration == \E calibrationData \in CalibrationLists : callAnalyzeSoilProfile(calibrationData)

SpecCalibration == InitCalibration /\ [][NextCalibration]_vars

\* A result without its timestamp and the date of its report.
undated(r) ==
    IF Threw(r) THEN r ELSE [r EXCEPT !.timestamp = 0, !.doctorReport.date = 0]

\* C13: two calls of analyzeSoilProfile with the same layers, foundation and
\* language return results equal in every field but the timestamp and the
\* date of the report, whatever their calibration lists are.
C13_CalibrationIgnored ==
    (out # null /\ earlier # null) => undated(out.value) = undated(earlier.value)

\* Two calls that returned an analysis, with different calibration lists and
\* at different times.
C13_Witness ==
    /\ out # null
    /\ earlier # null
    /\ out.calibrationData # earlier.calibrationData
    /\ out.calibrationData # <<>>
    /\ ~Threw(out.value)
    /\ out.value.timestamp # earlier.value.timestamp
    /\ out.value.bearingCapacity.q_ult # Zero

(* ------------------------------------------------------------------ *)
(* The soil parameters each module resolves for the foundation layer   *)
(* ------------------------------------------------------------------ *)

ParameterProfiles == {defaultLayers, softClayOverSand, siltOverGravel}

ParameterFoundations == {[defaultFoundation EXCEPT !.depth = z] : z \in {Two, FromInt(6)}}

\* The fields of the lab form and the values typed into them.
LabEdits ==
    {<<"useManual", TRUE>>, <<"useManual", FALSE>>,
     <<"unitWeight", undefined>>, <<"unitWeight", FromInt(17)>>,
     <<"frictionAngle", undefined>>, <<"frictionAngle", Zero>>,
     <<"frictionAngle", FromInt(34)>>,
     <<"cohesion", undefined>>, <<"cohesion", FromInt(40)>>}

InitParameters ==
    /\ curLayers \in ParameterProfiles
    /\ curFoundation \in ParameterFoundations
    /\ idle

\* layers.map(l => l.id === id ? { ...l, labData: { ...l.labData, [field]: value } } : l)
updateLayerLabData(id, field, value) ==
    /\ edits < MaxEdits
    /\ curLayers' = [i \in 1..Len(curLayers) |->
                        IF curLayers[i].id = id
                        THEN [curLayers[i] EXCEPT !.labData[field] = value]
                        ELSE curLayers[i]]
    /\ edits' = edits + 1
    /\ out' = null
    /\ lastOp' = Op("updateLayerLabData", field)
    /\ UNCHANGED <<curFoundation, curLang, result, history, pending, clock, earlier>>

\* One run: every module resolves the parameters of the layer the foundation
\* stands in.
resolveParameters ==
    /\ out = null
    /\ LET found == findLayer(curLayers, curFoundation.depth)
           foundationLayer == IF found # undefined THEN found ELSE curLayers[1]
       IN  out' = [layer |-> foundationLayer, by |-> parametersOf(foundationLayer)]
    /\ lastOp' = Op("resolveParameters", "")
    /\ UNCHANGED <<curLayers, curFoundation, curLang, result, history, pending, clock,
                   edits, earlier>>

NextParameters ==
    \/ \E i \in 1..Len(curLayers), e \in LabEdits : updateLayerLabData(curLayers[i].id, e[1], e[2])
    \/ resolveParameters

SpecParameters == InitParameters /\ [][NextParameters]_vars

estimateOf(lyr, field) ==
    CASE field = "unitWeight" -> estimateGamma(lyr.sptN, lyr.type)
      [] field = "frictionAngle" -> estimatePhi(lyr.sptN, lyr.type)
      [] field = "cohesion" -> estimateCohesion(lyr.sptN, lyr.type)

\* The measured value when the flag is set and the field is present, the
\* estimate otherwise.
measuredWhenFlagged(lyr, field) ==
    IF lyr.labData.useManual /\ lyr.labData[field] # undefined
    THEN lyr.labData[field]
    ELSE estimateOf(lyr, field)

\* C14: every module resolves a parameter of a layer to the measured value
\* exactly when the layer's flag is set and the field is present, and to the
\* estimate otherwise, so no two modules resolve the same parameter of the
\* same layer to different values within one run.
C14_MeasuredWhenFlagged ==
    out # null =>
        /\ \A m \in DOMAIN out.by : \A field \in DOMAIN out.by[m] :
              out.by[m][field] = measuredWhenFlagged(out.layer, field)
        /\ \A m1, m2 \in DOMAIN out.by : \A field \in DOMAIN out.by[m1] \cap DOMAIN out.by[m2] :
              out.by[m1][field] = out.by[m2][field]

(* ------------------------------------------------------------------ *)
(* The components of the settlement under a net pressure               *)
(* ------------------------------------------------------------------ *)

\* foundation.load / area, as calculateSettlement takes it.
appliedPressureOf(foundation) ==
    FDiv(foundation.load,
         planArea(foundation.type, footingB(foundation), footingL(foundation)))

\* gamma * Df, the overburden at foundation level.
overburdenOf(layers, foundation) ==
    FMul(getWeightedGamma(layers, foundation.depth), foundation.depth)

\* A clay or silt layer with positive thickness below the foundation depth.
clayBelow(layers, foundation) ==
    \E i \in 1..Len(layers) :
        /\ layers[i].type \in {"Clay", "Silt"}
        /\ FGt(layers[i].depthTo, foundation.depth)
        /\ FGt(layers[i].depthTo, layers[i].depthFrom)

settled == lastOp.op \in {"calculateSettlement", "recallWithLoad"}

referenceScenario ==
    /\ curLayers = defaultLayers
    /\ curFoundation = footing([type |-> "raft", width |-> FromInt(10),
                                length |-> FromInt(10), diameter |-> undefined],
                               FromInt(16000), undefined)

timerNeverFires(i) == FALSE /\ UNCHANGED vars

\* What ends request i however the service behaves: the engine's TypeError
\* rejects it at once, and otherwise setTimeout(() => reject(...), 8000) wins
\* the race at the latest.
requestTimesOut(i) ==
    \E reason \in {"TypeError", "AI generation timed out"} : enhanceFails(i, reason)

\* The App with its timers running: a step of requestTimesOut takes its
\* request out of pending.
SpecTimeout ==
    Init /\ [][Next]_vars /\ \A i \in 1..MaxPending : WF_(Len(pending))(requestTimesOut(i))

\* C16: once handleEnhanceReport has set isAiGenerating, the flag returns to
\* false, and a request in flight does not stay pending forever: a full set of
\* requests in flight loses a request.
C16_NarrationSettles ==
    /\ (result # null /\ result.isAiGenerating) ~> (result # null /\ ~result.isAiGenerating)
    /\ (Len(pending) = MaxPending) ~> (Len(pending) < MaxPending)

\* A request that was in flight and has been ended by the catch block, the
\* flag back to false.
C16_Witness ==
    /\ lastOp.op = "enhanceFails"
    /\ pending = <<>>
    /\ result # null
    /\ ~result.isAiGenerating

(* ------------------------------------------------------------------ *)
(* generateBarSuggestion, called on steel areas                        *)
(* ------------------------------------------------------------------ *)

\* Required steel areas in mm2 per metre: 10, 20, ... in MaxSteelSteps steps.
MaxSteelSteps == 600

SteelAreas == {10 * k : k \in 1..MaxSteelSteps}

InitBars ==
    /\ curLayers = defaultLayers
    /\ curFoundation = defaultFoundation
    /\ idle

callBarSuggestion(asRequired) ==
    /\ lastOp.op = "init"
    /\ out' = [asRequired |-> asRequired,
               value |-> generateBarSuggestion(FromInt(asRequired))]
    /\ lastOp' = Op("generateBarSuggestion", "")
    /\ UNCHANGED <<curLayers, curFoundation, curLang, result, history, pending, clock,
                   edits, earlier>>

NextBars == \E asRequired \in SteelAreas : callBarSuggestion(asRequired)

SpecBars == InitBars /\ [][NextBars]_vars

\* floor(barArea / As * 1000) in whole numbers.
rawSpacing(barArea, asRequired) == (barArea * 1000) \div asRequired

tableAreas == [dia \in {12, 16, 20, 25} |->
                 CASE dia = 12 -> 113 [] dia = 16 -> 201 [] dia = 20 -> 314 [] dia = 25 -> 491]

inBand(spacing) == spacing >= 100 /\ spacing <= 300

\* C18: the suggestion names a diameter of {12, 16, 20, 25} and a spacing that
\* is a multiple of 25 within [100, 300]: the smallest diameter whose raw
\* spacing lies in [100, 300] with that spacing rounded down to 25, and when
\* no diameter qualifies 20 with the rounded spacing clamped into [100, 300].
C18_BarSuggestion ==
    lastOp.op = "generateBarSuggestion" =>
        LET As == out.asRequired
            dia == out.value.dia
            spacing == out.value.spacing
            fits == {d \in DOMAIN tableAreas : inBand(rawSpacing(tableAreas[d], As))}
            down25(s) == (s \div 25) * 25
        IN  /\ dia \in {12, 16, 20, 25}
            /\ spacing % 25 = 0
            /\ inBand(spacing)
            /\ fits # {} =>
                  /\ dia \in fits
                  /\ \A d \in fits : dia <= d
                  /\ spacing = down25(rawSpacing(tableAreas[dia], As))
            /\ fits = {} =>
                  /\ dia = 20
                  /\ LET rounded == down25(rawSpacing(314, As))
                     IN  spacing = IF rounded < 100 THEN 100
                                   ELSE IF rounded > 300 THEN 300 ELSE rounded

\* A suggestion by the fallback, clamped up to 100 mm, and so of a steel area
\* no diameter of the table can carry within the band.
C18_Witness ==
    /\ lastOp.op = "generateBarSuggestion"
    /\ out.value = [dia |-> 20, spacing |-> 100]
    /\ rawSpacing(491, out.asRequired) < 100

\* C28: the suggested bars supply at least the required steel area:
\* barArea(dia) * 1000 / spacing >= As, in the fallback branch as well.
C28_SuppliesRequiredArea ==
    lastOp.op = "generateBarSuggestion" =>
        tableAreas[out.value.dia] * 1000 >= out.asRequired * out.value.spacing

(* ------------------------------------------------------------------ *)
(* The consolidation of a profile, layer by layer                      *)
(* ------------------------------------------------------------------ *)

consolidationCall(layers, foundation) == Call("consolidationCall", <<layers, foundation>>)

claySiltBelow(layers, Df) == Call("claySiltBelow", <<layers, Df>>)

withLayerAdded(layers, new) == Call("withLayerAdded", <<layers, new>>)

ConsolidationFoundations ==
    {[footing(s, FromInt(16000), undefined) EXCEPT !.depth = z] :
        s \in {sh \in FootingShapes : sh.type \in {"raft", "isolated"}},
        z \in {Two, FromInt(5)}}

\* The layers the form can add below the profile: a type, a thickness in
\* metres and a blow count.
AddedLayers ==
    {[type |-> "Silt", thickness |-> Two, sptN |-> FromInt(10)],
     [type |-> "Clay", thickness |-> FromInt(4), sptN |-> FromInt(6)],
     [type |-> "Sand", thickness |-> FromInt(3), sptN |-> FromInt(25)]}

InitConsolidation ==
    /\ curLayers \in EngineProfiles
    /\ curFoundation \in ConsolidationFoundations
    /\ idle

callConsolidation ==
    /\ lastOp.op = "init"
    /\ out' = consolidationCall(curLayers, curFoundation)
    /\ lastOp' = Op("consolidation", "")
    /\ UNCHANGED <<curLayers, curFoundation, curLang, result, history, pending, clock,
                   edits, earlier>>

\* addLayer: a layer from the bottom of the profile down, and the run on the
\* longer profile.
addLayer(new) ==
    /\ lastOp.op = "consolidation"
    /\ curLayers' = withLayerAdded(curLayers, new)
    /\ earlier' = [layers |-> curLayers, out |-> out]
    /\ out' = consolidationCall(curLayers', curFoundation)
    /\ lastOp' = Op("addLayer", new.type)
    /\ UNCHANGED <<curFoundation, curLang, result, history, pending, clock, edits>>

\* The run on what is left of the profile when the sand, gravel and rock and
\* everything above the foundation depth are taken away.
dropNonContributing ==
    /\ lastOp.op = "consolidation"
    /\ curLayers' = claySiltBelow(curLayers, curFoundation.depth)
    /\ curLayers' # curLayers
    /\ earlier' = [layers |-> curLayers, out |-> out]
    /\ out' = consolidationCall(curLayers', curFoundation)
    /\ lastOp' = Op("dropNonContributing", "")
    /\ UNCHANGED <<curFoundation, curLang, result, history, pending, clock, edits>>

NextConsolidation ==
    \/ callConsolidation
    \/ \E new \in AddedLayers : addLayer(new)
    \/ dropNonContributing

SpecConsolidation == InitConsolidation /\ [][NextConsolidation]_vars

\* C20: only the clay and silt below the foundation depth contributes to the
\* primary and secondary consolidation and to the consolidation time, each such
\* layer with the thickness depthTo - max(depthFrom, Df): the results do not
\* change when everything else is taken away, they are 0 when nothing
\* qualifies, and the totals are >= 0 and do not decrease when a layer is added.
C20_ContributingLayers ==
    /\ lastOp.op \in {"consolidation", "addLayer", "dropNonContributing"} =>
          /\ FGe(out.primary, Zero)
          /\ FGe(out.secondary, Zero)
          /\ claySiltBelow(curLayers, curFoundation.depth) = <<>> =>
                /\ out.primary = Zero
                /\ out.secondary = Zero
                /\ out.time.unit = "< 1 Month"
    /\ lastOp.op = "dropNonContributing" => out = earlier.out
    /\ lastOp.op = "addLayer" =>
          /\ FGe(out.primary, earlier.out.primary)
          /\ FGe(out.secondary, earlier.out.secondary)

\* A profile with a layer the foundation stands in, cut off at the foundation
\* depth, with its consolidation as before and above 0.
C20_Witness ==
    /\ lastOp.op = "dropNonContributing"
    /\ Len(curLayers) > 0
    /\ curLayers[1].depthFrom = curFoundation.depth
    /\ FLt(earlier.layers[1].depthFrom, curFoundation.depth)
    /\ FGt(out.primary, Zero)
    /\ FGt(out.secondary, Zero)
    /\ out = earlier.out

(* ------------------------------------------------------------------ *)
(* The water table and the unit weight below the footing               *)
(* ------------------------------------------------------------------ *)

\* Depths of the water table, in metres: above, at and below the foundation
\* level of 2 m, and at one width below it for each of the footing shapes.
GroundwaterDepths ==
    {Zero, One, Two, Num(25, -1), FromInt(3), Num(35, -1), FromInt(4), FromInt(5),
     FromInt(8), FromInt(12), FromInt(15)}

GroundwaterProfiles == {defaultLayers, softClayOverSand, looseSandOverClay}

GroundwaterFoundations ==
    {[footing(s, FromInt(16000), undefined) EXCEPT !.groundwaterDepth = gw] :
        s \in FootingShapes, gw \in GroundwaterDepths}

InitGroundwater ==
    /\ curLayers \in GroundwaterProfiles
    /\ curFoundation \in GroundwaterFoundations
    /\ idle

\* A second run with the water table lower down.
recallWithGroundwater(gw) ==
    /\ lastOp.op = "calculateBearingCapacity"
    /\ FGt(gw, curFoundation.groundwaterDepth)
    /\ earlier' = [foundation |-> curFoundation, out |-> out]
    /\ curFoundation' = [curFoundation EXCEPT !.groundwaterDepth = gw]
    /\ out' = bearingCall(curLayers, curFoundation')
    /\ lastOp' = Op("recallWithGroundwater", "")
    /\ UNCHANGED <<curLayers, curLang, result, history, pending, clock, edits>>

NextGroundwater ==
    \/ callBearingCapacity
    \/ \E gw \in GroundwaterDepths : recallWithGroundwater(gw)

SpecGroundwater == InitGroundwater /\ [][NextGroundwater]_vars

\* a and b differ by at most tol
within(a, b, tol) == FLe(FSub(a, b), tol) /\ FLe(FSub(b, a), tol)

Tolerance == Num(1, -5)

\* C21: the unit weight below the footing is gamma when the water table is at
\* least one width below the foundation level, gamma - 9.81 when it is at or
\* above that level, and gamma - 9.81 + ((gw - Df)/B) * 9.81 in between; it
\* lies in [gamma - 9.81, gamma], does not decrease when the water table goes
\* down and rises by no more than 9.81 * (the lowering / B), so that it has no
\* jump at either boundary; the overburden is always the full gamma * Df.
C21_GroundwaterCorrection ==
    /\ lastOp.op \in {"calculateBearingCapacity", "recallWithGroundwater"} =>
          LET r == out.raw
              gw == curFoundation.groundwaterDepth
              Df == curFoundation.depth
              below == r.gw.gammaBelow
          IN  /\ FGe(gw, FAdd(Df, r.B)) => below = r.gamma
              /\ FLe(gw, Df) => below = FSub(r.gamma, gammaW)
              /\ FGt(gw, Df) /\ FLt(gw, FAdd(Df, r.B)) =>
                    within(below,
                           FAdd(FSub(r.gamma, gammaW), FMul(FDiv(FSub(gw, Df), r.B), gammaW)),
                           Tolerance)
              /\ FGe(below, FSub(r.gamma, gammaW))
              /\ FLe(below, r.gamma)
              /\ r.gw.gammaAbove = r.gamma
              /\ r.q = FMul(r.gamma, Df)
    /\ lastOp.op = "recallWithGroundwater" =>
          LET lowering == FSub(curFoundation.groundwaterDepth,
                               earlier.foundation.groundwaterDepth)
              rise == FSub(out.raw.gw.gammaBelow, earlier.out.raw.gw.gammaBelow)
          IN  /\ FGe(rise, Zero)
              /\ FLe(rise, FAdd(FDiv(FMul(gammaW, lowering), out.raw.B), Tolerance))

\* The water table lowered from inside the influence zone to its lower edge.
C21_Witness ==
    /\ lastOp.op = "recallWithGroundwater"
    /\ curFoundation.groundwaterDepth = FAdd(curFoundation.depth, out.raw.B)
    /\ FGt(earlier.foundation.groundwaterDepth, curFoundation.depth)
    /\ FGt(out.raw.gw.gammaBelow, earlier.out.raw.gw.gammaBelow)
    /\ FGt(earlier.out.raw.gw.gammaBelow, FSub(out.raw.gamma, gammaW))

(* ------------------------------------------------------------------ *)
(* Settlement on profiles with degenerate measured values              *)
(* ------------------------------------------------------------------ *)

\* A measured modulus of 0 over the whole profile, a measured modulus below 0
\* from 4 m down, and a clay whose measured unit weight is below 0.
zeroModulusLab == [defaultLabData EXCEPT !.useManual = TRUE, !.elasticModulus = Zero]

negativeModulusLab == [defaultLabData EXCEPT !.useManual = TRUE, !.elasticModulus = FromInt(-10)]

negativeWeightLab == [measuredClayLab EXCEPT !.unitWeight = FromInt(-2)]

zeroModulusSand == <<layer("1", "Sand", Zero, FromInt(30), FromInt(20), zeroModulusLab)>>

sandOverNegativeModulus ==
    <<layer("1", "Sand", Zero, FromInt(4), FromInt(20), estimatedLab),
      layer("2", "Sand", FromInt(4), FromInt(30), FromInt(20), negativeModulusLab)>>

negativeWeightClay ==
    <<layer("1", "Clay", Zero, FromInt(12), FromInt(12), negativeWeightLab)>>

DegenerateProfiles ==
    {zeroModulusSand, sandOverNegativeModulus, negativeWeightClay, stiffClay, defaultLayers}

InitDegenerate ==
    /\ curLayers \in DegenerateProfiles
    /\ curFoundation \in SettlementFoundations
    /\ idle

NextDegenerate ==
    \/ callSettlement
    \/ \E l \in SettlementLoads : recallWithLoad(l)

SpecDegenerate == InitDegenerate /\ [][NextDegenerate]_vars

\* The measured or estimated modulus of every layer is 0 or less.
noPositiveModulus(layers) ==
    \A i \in 1..Len(layers) : FLe(getElasticModulus(layers[i]), Zero)

\* The unit weight of every clay and silt layer is 0 or less.
noPositiveWeight(layers) ==
    \A i \in 1..Len(layers) :
        layers[i].type \in {"Clay", "Silt"} => FLe(measuredOrEstimatedGamma(layers[i]), Zero)

\* C22: the settlement is computed, not aborted, on degenerate values: the
\* elastic settlement is exactly 0 when the applied pressure less the
\* overburden at foundation level is 0 or less, and is >= 0 otherwise, with 0
\* for a profile none of whose sub-layers has a positive modulus; the primary
\* consolidation is >= 0, with 0 when no clay or silt has a positive initial
\* effective stress.
C22_EdgeCasesRecovered ==
    settled =>
        LET q == appliedPressureOf(curFoundation)
            q0 == overburdenOf(curLayers, curFoundation)
        IN  /\ ~Threw(out.raw) /\ ~Threw(out.value)
            /\ FLe(FSub(q, q0), Zero) => out.raw.elastic = Zero
            /\ FGe(out.raw.elastic, Zero)
            /\ FGe(out.raw.primary, Zero)
            /\ FGe(out.value.elastic, Zero)
            /\ FGe(out.value.primary, Zero)
            /\ FGe(out.value.total, Zero)
            /\ noPositiveModulus(curLayers) => out.raw.elastic = Zero
            /\ noPositiveWeight(curLayers) => out.raw.primary = Zero

\* A profile whose sub-layers from 4 m down have a modulus below 0, settled
\* under a pressure above the overburden by its upper sub-layers alone.
C22_Witness ==
    /\ settled
    /\ curLayers = sandOverNegativeModulus
    /\ FGt(appliedPressureOf(curFoundation), overburdenOf(curLayers, curFoundation))
    /\ FGt(out.raw.elastic, Zero)

(* ------------------------------------------------------------------ *)
(* The layer at a depth                                                *)
(* ------------------------------------------------------------------ *)

\* Depths in metres: above the surface, on the interfaces of the profiles,
\* inside their layers and below their bottoms.
LookupDepths ==
    {FromInt(-1), Zero, Half, Two, FromInt(3), Num(35, -1), FromInt(4), FromInt(5),
     FromInt(6), FromInt(9), FromInt(10), FromInt(12), FromInt(15), FromInt(18),
     FromInt(20), FromInt(30)}

InitLookup ==
    /\ curLayers \in EngineProfiles
    /\ curFoundation = defaultFoundation
    /\ idle

\* The two lookups of the engine at one depth: the one of the settlement and
\* strength loops and the one of calculateBearingCapacity.
callGetLayerAtDepth(depth) ==
    /\ lastOp.op = "init"
    /\ out' = [depth |-> depth,
               layer |-> getLayerAtDepth(curLayers, depth),
               foundationLayer |-> foundationLayerAt(curLayers, depth)]
    /\ lastOp' = Op("getLayerAtDepth", "")
    /\ UNCHANGED <<curLayers, curFoundation, curLang, result, history, pending, clock,
                   edits, earlier>>

NextLookup == \E depth \in LookupDepths : callGetLayerAtDepth(depth)

SpecLookup == InitLookup /\ [][NextLookup]_vars

\* Each layer of the profile starts where the one above it ends.
contiguous(layers) ==
    /\ Len(layers) > 0
    /\ \A i \in 1..Len(layers) : FLt(layers[i].depthFrom, layers[i].depthTo)
    /\ \A i \in 1..(Len(layers) - 1) : layers[i + 1].depthFrom = layers[i].depthTo

\* The layers whose interval [depthFrom, depthTo) holds d.
holding(layers, d) ==
    {i \in 1..Len(layers) : FLe(layers[i].depthFrom, d) /\ FLt(d, layers[i].depthTo)}

\* C23: in a contiguous ordered profile a depth from the top of the first
\* layer to above the bottom of the last one lies in exactly one interval
\* [depthFrom, depthTo), and both lookups return that layer, the lower one for
\* a depth on an interface; for any other depth each lookup still returns a
\* layer of the profile.
C23_LayerLookup ==
    (lastOp.op = "getLayerAtDepth" /\ contiguous(curLayers)) =>
        LET d == out.depth
            n == Len(curLayers)
            inside == FLe(curLayers[1].depthFrom, d) /\ FLt(d, curLayers[n].depthTo)
        IN  /\ \E i \in 1..n : out.layer = curLayers[i]
            /\ \E i \in 1..n : out.foundationLayer = curLayers[i]
            /\ inside =>
                  /\ Cardinality(holding(curLayers, d)) = 1
                  /\ \A i \in holding(curLayers, d) :
                        /\ out.layer = curLayers[i]
                        /\ out.foundationLayer = curLayers[i]
                  /\ \A i \in 2..n : d = curLayers[i].depthFrom => out.layer = curLayers[i]

\* A lookup on the interface of two layers that returned the lower one.
C23_Witness ==
    /\ lastOp.op = "getLayerAtDepth"
    /\ contiguous(curLayers)
    /\ Len(curLayers) > 1
    /\ out.depth = curLayers[2].depthFrom
    /\ out.layer = curLayers[2]

(* ------------------------------------------------------------------ *)
(* The consolidation time and its unit                                 *)
(* ------------------------------------------------------------------ *)

\* A clay from the surface down to depthTo with a measured or an empty cv.
clayOfCv(depthTo, cv) ==
    <<layer("1", "Clay", Zero, depthTo, FromInt(8), [measuredClayLab EXCEPT !.cv = cv])>>

TimeProfiles ==
    {clayOfCv(depthTo, cv) :
        depthTo \in {Two, Num(28, -1), FromInt(4), FromInt(6), FromInt(12)},
        cv \in {undefined, Num(848, -3), FromInt(8), FromInt(10), FromInt(50)}}
    \cup {softClayOverSand, looseSandOverClay}

TimeFoundations ==
    {[defaultFoundation EXCEPT !.depth = z] : z \in {One, Two}}

InitTime ==
    /\ curLayers \in TimeProfiles
    /\ curFoundation \in TimeFoundations
    /\ idle

SpecTime == InitTime /\ [][NextConsolidation]_vars

\* 0.848 * (H/2)^2 / cv in years, H the thickness below the foundation depth
\* and cv 0.5 where none is measured.
t90(l, Df) ==
    LET H == FSub(l.depthTo, FMax(l.depthFrom, Df))
        half == FDiv(H, Two)
    IN  FDiv(FMul(Num(848, -3), FMul(half, half)), OrElse(l.labData.cv, Half))

qualifying(layers, Df) ==
    {i \in 1..Len(layers) : layers[i].type \in {"Clay", "Silt"} /\ FGt(layers[i].depthTo, Df)}

timed == lastOp.op \in {"consolidation", "addLayer", "dropNonContributing"}

\* C24: the consolidation time is the largest t90 of the qualifying layers,
\* in days exactly when it is below 1/12 year, in months exactly when it is
\* from 1/12 year to below 1 year, and in years otherwise; it is '< 1 Month'
\* when no layer qualifies.
C24_ConsolidationTime ==
    timed =>
        LET Df == curFoundation.depth
            Q == qualifying(curLayers, Df)
            month == FDiv(One, FromInt(12))
        IN  /\ Q = {} => out.time.unit = "< 1 Month"
            /\ Q # {} =>
                  \E i \in Q :
                     LET t == t90(curLayers[i], Df)
                     IN  /\ \A j \in Q : FLe(t90(curLayers[j], Df), t)
                         /\ out.time.unit = "Days" <=> FLt(t, month)
                         /\ out.time.unit = "Months" <=> (FGe(t, month) /\ FLt(t, One))
                         /\ out.time.unit = "Years" <=> FGe(t, One)
                         /\ out.time.unit = "Days" =>
                               within(out.time.value, FMul(t, FromInt(365)), Half)
                         /\ out.time.unit = "Months" =>
                               within(out.time.value, FMul(t, FromInt(12)), Half)
                         /\ out.time.unit = "Years" =>
                               within(out.time.value, t, Num(5, -2))

\* A time of exactly one year, printed in years.
C24_Witness ==
    /\ timed
    /\ qualifying(curLayers, curFoundation.depth) = {1}
    /\ t90(curLayers[1], curFoundation.depth) = One
    /\ out.time = [value |-> One, unit |-> "Years"]

(* ------------------------------------------------------------------ *)
(* The applied pressure of one run, module by module                   *)
(* ------------------------------------------------------------------ *)

pressureCall(layers, foundation) == Call("pressureCall", <<layers, foundation>>)

InitPressure ==
    /\ curLayers \in EngineProfiles
    /\ curFoundation \in SettlementFoundations
    /\ idle

\* The modules of runFullAnalysis on one foundation.
callModules ==
    /\ lastOp.op = "init"
    /\ out' = pressureCall(curLayers, curFoundation)
    /\ lastOp' = Op("runFullAnalysis", "")
    /\ UNCHANGED <<curLayers, curFoundation, curLang, result, history, pending, clock,
                   edits, earlier>>

NextPressure == callModules

SpecPressure == InitPressure /\ [][NextPressure]_vars

\* C27: in one run the applied pressure of the bearing capacity, of the
\* settlement, of the structural design and of the stress field (reported as
\* maxVonMisesStress) is one value, for each shape, and the influence depth of
\* a circular footing is 2 x its diameter whatever its length field holds.
C27_OnePressure ==
    lastOp.op = "runFullAnalysis" =>
        /\ out.bearing = out.settlement
        /\ out.settlement = out.design
        /\ out.maxVonMisesStress = Round2(out.design)
        /\ curFoundation.type = "circular" =>
              out.influenceDepth = FMul(Two, curFoundation.diameter)

(* ------------------------------------------------------------------ *)
(* The statuses and the numbers reported with them                     *)
(* ------------------------------------------------------------------ *)

\* A clay with a measured cohesion of 25.45 kPa, friction angle 0 and unit
\* weight 17: on a slope of 45 degrees at 2 m its factor of safety is
\* 25.45 / 17 = 1.497.
marginalClay ==
    <<layer("1", "Clay", Zero, FromInt(12), FromInt(12),
            [measuredClayLab EXCEPT !.cohesion = Num(2545, -2)])>>

ReportedProfiles == EngineProfiles \cup {marginalClay}

ReportedFoundations ==
    {[footing(s, l, undefined) EXCEPT !.slopeAngle = a] :
        s \in FootingShapes, l \in {FromInt(5000), FromInt(16000)},
        a \in {Zero, FromInt(45)}}

\* The settlement and slope blocks of one run.
reportedCall(layers, foundation) ==
    [settlement |-> calculateSettlement(layers, foundation),
     slopeStability |-> calculateSlopeStability(layers, foundation)]

InitReported ==
    /\ curLayers \in ReportedProfiles
    /\ curFoundation \in ReportedFoundations
    /\ idle

callReported ==
    /\ lastOp.op = "init"
    /\ out' = reportedCall(curLayers, curFoundation)
    /\ lastOp' = Op("runFullAnalysis", "")
    /\ UNCHANGED <<curLayers, curFoundation, curLang, result, history, pending, clock,
                   edits, earlier>>

NextReported == callReported

SpecReported == InitReported /\ [][NextReported]_vars

\* The sum of the reported components differs from the reported total.
sumDiffers(s) == s.total # FAdd(FAdd(s.elastic, s.primary), s.secondary)

\* C29: each status agrees with the rounded number reported with it: the
\* settlement is 'Safe' iff the reported total < 25, 'Warning' iff
\* 25 <= total < 50 and 'Failure' iff total >= 50; the slope is 'Unstable' iff
\* its reported factor of safety < 1.5; and the reported total is the sum of
\* the reported elastic, primary and secondary values.
C29_StatusAgreesWithReported ==
    lastOp.op = "runFullAnalysis" =>
        LET s == out.settlement
            slope == out.slopeStability
        IN  /\ s.status = "Safe" <=> FLt(s.total, FromInt(25))
            /\ s.status = "Warning" <=> (FGe(s.total, FromInt(25)) /\ FLt(s.total, FromInt(50)))
            /\ s.status = "Failure" <=> FGe(s.total, FromInt(50))
            /\ slope # undefined =>
                  (slope.status = "Unstable" <=> FLt(slope.factorOfSafety, Num(15, -1)))
            /\ ~sumDiffers(s)
====
